---- MODULE Spec2Model ----
(***************************************************************************)
(* A model of dataops: the ACS endpoint descriptor (APIEndpoint), the      *)
(* response wrangling of APIData (mixins/acs.py, apis/acs.py) and the star *)
(* model builder (builders/starmodel.py).                                  *)
(*                                                                         *)
(* Strings are TLA+ strings, read character by character with SubSeq; a    *)
(* polars frame is a sequence of rows (records) in the frame's row order.  *)
(* A polars/Python null is the value Null (strings) or NullInt (integers), *)
(* neither of which is a value any column can hold.  A raised exception is *)
(* the record Raise(type, reason).                                         *)
(***************************************************************************)
EXTENDS Integers, Sequences, FiniteSets, TLC

VARIABLES
    \* ---- endpoint descriptor (APIEndpoint) ----
    url,        \* the URL string handed to APIEndpoint.from_url
    envToken,   \* what AppSettings().census.token resolves to in this process
    upc,        \* position of the caller: "start", "parsed", "rebuilt", "reparsed"
    ep,         \* result of from_url(url): a descriptor or a raised exception
    rebuiltWith,\* which URL builder the caller used: "url_no_key" or "full_url"
    rebuilt,    \* the URL rebuilt from ep
    ep2,        \* result of from_url(rebuilt)
    given,      \* the keyword arguments handed to APIEndpoint(...) directly
    read,       \* the computed property the caller read last, and its outcome
    \* ---- response data (APIData) ----
    response,        \* the payload the data request yields: header row, then data rows
    labels_response, \* the variable-label table the metadata request yields
    apidata,         \* the APIData object: its endpoint and its cached properties
    called,          \* the method or property the client called last
    out,             \* what that call returned or raised
    fetchlog,        \* the requests made through the fetch collaborator, in order
    \* ---- star model builder (ACSStarModelBuilder) ----
    builder,         \* the builder object: its input and its eight table slots
    blog,            \* the calls made on the builder so far, with their outcomes
    \* ---- fetch collaborator (CensusAPIDataSource) ----
    source           \* the process calling fetch: its position, the response in hand, the events so far

urlVars == <<url, envToken, upc, ep, rebuiltWith, rebuilt, ep2, given, read>>
dataVars == <<response, labels_response, apidata, called, out, fetchlog>>
builderVars == <<builder, blog>>
sourceVars == <<source>>
vars == <<urlVars, dataVars, builderVars, sourceVars>>

\* what an action of one component leaves alone: the other components
notUrlVars == <<dataVars, builderVars, sourceVars>>
notDataVars == <<urlVars, builderVars, sourceVars>>

(***************************************************************************)
(* Nulls and exceptions                                                    *)
(***************************************************************************)
Null == "<null>"
NullInt == 0 - 1
Raise(type, reason) == [exc |-> type, reason |-> reason]
IsRaised(r) == r.exc # "none"

\* no call has returned yet
Pending == [exc |-> "pending", reason |-> ""]

(***************************************************************************)
(* Python / polars string primitives.  Bind(v, F) is F(v) with v evaluated *)
(* once (LET x == v IN F(x), with x a value).                              *)
(***************************************************************************)
Bind(v, F(_)) == CHOOSE r \in {F(x) : x \in {v}} : TRUE

Min(S) == CHOOSE i \in S : \A j \in S : i <= j
Max(S) == CHOOSE i \in S : \A j \in S : i >= j

Ch(s, i) == SubSeq(s, i, i)
From(s, i) == SubSeq(s, i, Len(s))
Digits == {"0", "1", "2", "3", "4", "5", "6", "7", "8", "9"}
DigitVal(c) ==
    CASE c = "0" -> 0 [] c = "1" -> 1 [] c = "2" -> 2 [] c = "3" -> 3 [] c = "4" -> 4
      [] c = "5" -> 5 [] c = "6" -> 6 [] c = "7" -> 7 [] c = "8" -> 8 [] c = "9" -> 9
DigitChar(d) == Ch("0123456789", d + 1)

\* str.find(sub, start): the first index >= start (1-based) at which sub occurs, 0 if none
Find(s, sub, start) ==
    Bind({i \in start..(Len(s) - Len(sub) + 1) : SubSeq(s, i, i + Len(sub) - 1) = sub},
         LAMBDA hits : IF hits = {} THEN 0 ELSE Min(hits))

Contains(s, sub) == Find(s, sub, 1) # 0
StartsWith(s, p) == Len(s) >= Len(p) /\ SubSeq(s, 1, Len(p)) = p
EndsWith(s, p) == Len(s) >= Len(p) /\ From(s, Len(s) - Len(p) + 1) = p

\* the pieces of s from index start on
RECURSIVE SplitFrom(_, _, _)
SplitFrom(s, sep, start) ==
    Bind(Find(s, sep, start),
         LAMBDA i : IF i = 0 THEN <<From(s, start)>>
                    ELSE <<SubSeq(s, start, i - 1)>> \o SplitFrom(s, sep, i + Len(sep)))

\* str.split(sep): every piece, empty ones included
Split(s, sep) == Bind(s, LAMBDA v : SplitFrom(v, sep, 1))

\* str.split(sep, 1): at most one split, the remainder kept whole
Split1(s, sep) ==
    Bind(s, LAMBDA v :
        Bind(Find(v, sep, 1),
             LAMBDA i : IF i = 0 THEN <<v>> ELSE <<SubSeq(v, 1, i - 1), From(v, i + Len(sep))>>))

\* sep.join(parts[lo..hi])
RECURSIVE JoinRange(_, _, _, _)
JoinRange(parts, sep, lo, hi) ==
    IF lo > hi THEN ""
    ELSE IF lo = hi THEN parts[lo]
    ELSE JoinRange(parts, sep, lo, (lo + hi) \div 2) \o sep \o JoinRange(parts, sep, ((lo + hi) \div 2) + 1, hi)

\* sep.join(parts)
Join(parts, sep) == Bind(parts, LAMBDA v : JoinRange(v, sep, 1, Len(v)))

\* str.strip(chars) / polars str.strip_chars(chars): chars is a set of characters
LStrip(s, chars) ==
    Bind(s, LAMBDA v :
        Bind({i \in 1..Len(v) : Ch(v, i) \notin chars},
             LAMBDA keep : IF keep = {} THEN "" ELSE From(v, Min(keep))))
RStrip(s, chars) ==
    Bind(s, LAMBDA v :
        Bind({i \in 1..Len(v) : Ch(v, i) \notin chars},
             LAMBDA keep : IF keep = {} THEN "" ELSE SubSeq(v, 1, Max(keep))))
Strip(s, chars) == LStrip(RStrip(s, chars), chars)
Whitespace == {" "}

\* every character of s is a decimal digit, and there is at least one
AllDigits(s) == Bind(s, LAMBDA v : Len(v) > 0 /\ \A i \in 1..Len(v) : Ch(v, i) \in Digits)

\* int(s[..n]) for a string of decimal digits
RECURSIVE StrToIntUpTo(_, _)
StrToIntUpTo(s, n) ==
    IF n = 0 THEN 0 ELSE 10 * StrToIntUpTo(s, n - 1) + DigitVal(Ch(s, n))
StrToInt(s) == Bind(s, LAMBDA v : StrToIntUpTo(v, Len(v)))

\* str(n) for n >= 0
RECURSIVE IntToStr(_)
IntToStr(n) == IF n < 10 THEN DigitChar(n) ELSE IntToStr(n \div 10) \o DigitChar(n % 10)

\* the concatenation of the strings of a sequence
Concat(parts) == Join(parts, "")

(***************************************************************************)
(* urllib.parse and requests: what from_url and the URL builders call      *)
(***************************************************************************)
Lower == "abcdefghijklmnopqrstuvwxyz"
Upper == "ABCDEFGHIJKLMNOPQRSTUVWXYZ"
CharsOf(s) == {Ch(s, i) : i \in 1..Len(s)}
Letters == CharsOf(Lower) \cup CharsOf(Upper)
Alnum == Letters \cup Digits
SchemeChars == Alnum \cup {"+", "-", "."}

\* the percent-encodings of the ASCII punctuation the model's strings use
PctTable ==
    << <<" ", "20">>, <<"!", "21">>, <<"#", "23">>, <<"$", "24">>, <<"%", "25">>,
       <<"&", "26">>, <<"(", "28">>, <<")", "29">>, <<"*", "2A">>, <<"+", "2B">>,
       <<",", "2C">>, <<"/", "2F">>, <<":", "3A">>, <<";", "3B">>, <<"=", "3D">>,
       <<"?", "3F">> >>
PctOf(c) == PctTable[CHOOSE j \in 1..Len(PctTable) : PctTable[j][1] = c][2]
IsPctCode(h) == \E j \in 1..Len(PctTable) : PctTable[j][2] = h
CharOfPct(h) == PctTable[CHOOSE j \in 1..Len(PctTable) : PctTable[j][2] = h][1]

\* s has an escape %XX at index i
EscapeAt(s, i) == i >= 1 /\ i + 2 <= Len(s) /\ Ch(s, i) = "%" /\ IsPctCode(SubSeq(s, i + 1, i + 2))

\* urllib.parse.unquote: %XX becomes its character, anything else stays
unquote(s) ==
    Bind(s, LAMBDA v :
        Concat([i \in 1..Len(v) |->
                  IF EscapeAt(v, i) THEN CharOfPct(SubSeq(v, i + 1, i + 2))
                  ELSE IF EscapeAt(v, i - 1) \/ EscapeAt(v, i - 2) THEN ""
                  ELSE Ch(v, i)]))

\* str.replace('+', ' ')
PlusToSpace(s) ==
    Bind(s, LAMBDA v : Concat([i \in 1..Len(v) |-> IF Ch(v, i) = "+" THEN " " ELSE Ch(v, i)]))

\* urllib.parse.quote_plus, which requests' urlencode applies to keys and values
QuoteSafe == Alnum \cup {"_", ".", "-", "~"}
quote_plus(s) ==
    Bind(s, LAMBDA v :
        Concat([i \in 1..Len(v) |->
                  IF Ch(v, i) \in QuoteSafe THEN Ch(v, i)
                  ELSE IF Ch(v, i) = " " THEN "+"
                  ELSE "%" \o PctOf(Ch(v, i))]))

\* requests.utils.requote_uri on the path: characters legal in a path stay,
\* existing %XX stay, the rest is percent-encoded
PathSafe == QuoteSafe \cup {"/", ":", "%", "(", ")", "*", "$", ",", "=", ";", "+", "!", "&"}
requote_path(s) ==
    Bind(s, LAMBDA v :
        Concat([i \in 1..Len(v) |->
                  IF Ch(v, i) \in PathSafe THEN Ch(v, i) ELSE "%" \o PctOf(Ch(v, i))]))

\* min index of any of "/?#" at or after position start, Len(s)+1 if none
NetlocEnd(s, start) ==
    Bind({i \in start..Len(s) : Ch(s, i) \in {"/", "?", "#"}},
         LAMBDA hits : IF hits = {} THEN Len(s) + 1 ELSE Min(hits))

\* urlsplit: the scheme and what follows it
SplitScheme(u) ==
    Bind(Find(u, ":", 1), LAMBDA i :
        IF i > 1 /\ Ch(u, 1) \in Letters /\ \A k \in 1..(i - 1) : Ch(u, k) \in SchemeChars
        THEN <<SubSeq(u, 1, i - 1), From(u, i + 1)>>
        ELSE <<"", u>>)

\* urlsplit: the netloc and what follows it
SplitNetloc(r) ==
    IF StartsWith(r, "//")
    THEN Bind(NetlocEnd(r, 3), LAMBDA e : <<SubSeq(r, 3, e - 1), From(r, e)>>)
    ELSE <<"", r>>

\* r cut at the first c: what is before it, what is after it
CutAt(r, c) ==
    Bind(Find(r, c, 1), LAMBDA i :
        IF i = 0 THEN <<r, "">> ELSE <<SubSeq(r, 1, i - 1), From(r, i + 1)>>)

\* urllib.parse.urlparse(url): scheme, netloc, path, params, query, fragment
urlparse(u) ==
    Bind(SplitScheme(u), LAMBDA sch :
    Bind(SplitNetloc(sch[2]), LAMBDA net :
    Bind(CutAt(net[2], "#"), LAMBDA frag :
    Bind(CutAt(frag[1], "?"), LAMBDA qry :
    Bind(CutAt(qry[1], ";"), LAMBDA par :
        [scheme |-> sch[1], netloc |-> net[1], path |-> par[1], params |-> par[2],
         query |-> qry[2], fragment |-> frag[2]])))))

\* urllib.parse.parse_qsl(query): the (name, value) pairs in order; a piece
\* without '=' or with an empty value is skipped (keep_blank_values=False)
parse_qsl(query) ==
    Bind(query, LAMBDA q :
        IF q = "" THEN <<>>
        ELSE Bind(Split(q, "&"), LAMBDA pieces :
             Bind([k \in 1..Len(pieces) |-> Split1(pieces[k], "=")], LAMBDA nvs :
             Bind(SelectSeq(nvs, LAMBDA nv : Len(nv) = 2 /\ Len(nv[Len(nv)]) # 0), LAMBDA kept :
                 [k \in 1..Len(kept) |->
                     <<unquote(PlusToSpace(kept[k][1])), unquote(PlusToSpace(kept[k][2]))>>]))))

\* parse_qs(query)[name]: the list of values of name; empty when name is not a key
QValues(qsl, name) ==
    Bind(SelectSeq(qsl, LAMBDA p : p[1] = name),
         LAMBDA hits : [k \in 1..Len(hits) |-> hits[k][2]])
QHas(qsl, name) == Len(QValues(qsl, name)) > 0

(***************************************************************************)
(* APIEndpoint: construction, from_url and the computed properties         *)
(***************************************************************************)
base_url == "https://api.census.gov/data"

\* The process environment as AppSettings() sees it: the settings cannot be
\* loaded ("unset"), they load with census.token = None ("notoken"), or they
\* load with a token string, which may be empty ("token").
EnvUnset == [state |-> "unset", token |-> ""]
EnvNoToken == [state |-> "notoken", token |-> ""]
EnvToken(t) == [state |-> "token", token |-> t]

\* APIEndpoint(year=..., dataset=..., variables=..., geography=..., api_key=...):
\* the before-validator set_api_key_from_env, then the field constraints
\* (year > 2004, variables min_length 1) and the dataset validator.
APIEndpoint_yearFrom2004(year, dataset, variables, geography, api_key, env) ==
    LET fromEnv == api_key = Null \/ api_key = ""
    IN IF fromEnv /\ env.state = "unset" THEN Raise("ValidationError", "settings")
       ELSE IF fromEnv /\ env.state = "notoken" THEN Raise("AttributeError", "get_secret_value")
       ELSE IF ~(year >= 2004) THEN Raise("ValidationError", "year")
       ELSE IF Len(variables) < 1 THEN Raise("ValidationError", "variables")
       ELSE [exc |-> "none",
             base_url |-> base_url,
             year |-> year,
             dataset |-> Strip(dataset, {"/"}),
             variables |-> variables,
             geography |-> geography,
             api_key |-> IF fromEnv THEN env.token ELSE api_key]
APIEndpoint(year, dataset, variables, geography, api_key, env) ==
    LET fromEnv == api_key = Null \/ api_key = ""
    IN IF fromEnv /\ env.state = "unset" THEN Raise("ValidationError", "settings")
       ELSE IF fromEnv /\ env.state = "notoken" THEN Raise("AttributeError", "get_secret_value")
       ELSE IF ~(year > 2004) THEN Raise("ValidationError", "year")
       ELSE IF Len(variables) < 1 THEN Raise("ValidationError", "variables")
       ELSE [exc |-> "none",
             base_url |-> base_url,
             year |-> year,
             dataset |-> Strip(dataset, {"/"}),
             variables |-> variables,
             geography |-> geography,
             api_key |-> IF fromEnv THEN env.token ELSE api_key]

\* the first of "for", "in", "ucgid" that is a key of query_params, Null if none
GeoKey_ucgidFirst(qsl) ==
    IF QHas(qsl, "ucgid") THEN "ucgid"
    ELSE IF QHas(qsl, "in") THEN "in"
    ELSE IF QHas(qsl, "for") THEN "for"
    ELSE Null
GeoKey(qsl) ==
    IF QHas(qsl, "for") THEN "for"
    ELSE IF QHas(qsl, "in") THEN "in"
    ELSE IF QHas(qsl, "ucgid") THEN "ucgid"
    ELSE Null

\* the path test of from_url, on a non-empty list of path parts
PathMismatch_and(path_parts) == path_parts[1] # "data" /\ Len(path_parts) < 3
PathMismatch(path_parts) == path_parts[1] # "data" \/ Len(path_parts) < 3

\* what the except clauses of from_url make of an exception raised in its body
FromUrlExcept(r) ==
    IF r.exc \in {"ValueError", "IndexError", "TypeError", "ValidationError"}
    THEN Raise("ValueError", r.reason)
    ELSE r

from_url(u, env) ==
    Bind(urlparse(u), LAMBDA parsed_url :
    Bind(parse_qsl(parsed_url.query), LAMBDA query_params :
    Bind(SelectSeq(Split(Strip(parsed_url.path, {"/"}), "/"), LAMBDA part : part # ""), LAMBDA path_parts :
    Bind(QValues(query_params, "get"), LAMBDA get :
    Bind(Split(IF Len(get) = 0 THEN "" ELSE get[1], ","), LAMBDA variables :
    Bind(GeoKey(query_params), LAMBDA geo_key :
    Bind(QValues(query_params, "key"), LAMBDA key :
    Bind(IF Len(path_parts) = 0 THEN Raise("IndexError", "list index out of range")
         ELSE IF PathMismatch(path_parts)
              THEN Raise("ValueError", "URL path does not match expected structure")
         ELSE IF ~AllDigits(path_parts[2])
              THEN Raise("ValueError", "invalid literal for int()")
         ELSE IF Len(variables) = 0 \/ variables = <<"">>
              THEN Raise("ValueError", "Could not find 'get' parameter")
         ELSE IF geo_key = Null
              THEN Raise("ValueError", "Could not find a recognized geography parameter")
         ELSE APIEndpoint(StrToInt(path_parts[2]),
                          Join(SubSeq(path_parts, 3, Len(path_parts)), "/"),
                          variables,
                          geo_key \o ":" \o QValues(query_params, geo_key)[1],
                          IF Len(key) = 0 THEN Null ELSE key[1],
                          env),
         LAMBDA body : IF IsRaised(body) THEN FromUrlExcept(body) ELSE body))))))))

\* requests.Request("GET", url_path, params=params).prepare().url
PreparedUrl(url_path, params) ==
    Bind(params, LAMBDA ps :
        requote_path(url_path) \o "?"
        \o Join([i \in 1..Len(ps) |-> quote_plus(ps[i][1]) \o "=" \o quote_plus(ps[i][2])], "&"))

GeoParam(e) == Split1(e.geography, ":")
UrlPath(e) == e.base_url \o "/" \o IntToStr(e.year) \o "/" \o e.dataset

url_no_key(e) ==
    PreparedUrl(UrlPath(e), << <<"get", Join(e.variables, ",")>>, GeoParam(e) >>)

full_url_keyAlways(e) ==
    PreparedUrl(UrlPath(e),
                << <<"get", Join(e.variables, ",")>>, GeoParam(e), <<"key", e.api_key>> >>)
full_url(e) ==
    PreparedUrl(UrlPath(e),
                << <<"get", Join(e.variables, ",")>>, GeoParam(e) >>
                \o (IF e.api_key # "" THEN << <<"key", e.api_key>> >> ELSE <<>>))

\* str.removeprefix / str.removesuffix
RemovePrefix(s, p) == IF StartsWith(s, p) THEN From(s, Len(p) + 1) ELSE s
RemoveSuffix(s, p) == IF EndsWith(s, p) THEN SubSeq(s, 1, Len(s) - Len(p)) ELSE s

group(e) ==
    Bind(Join(e.variables, ""), LAMBDA _variable_string :
        IF Len(e.variables) < 2 /\ StartsWith(_variable_string, "group")
        THEN RemoveSuffix(RemovePrefix(_variable_string, "group("), ")")
        ELSE Null)

TableTypeNames == {"subject", "detailed", "cprofile", "dataprofile", "unknown"}

\* the table type, or the exception the property raises
table_type(e) ==
    Bind(Split(Strip(e.dataset, {"/"}), "/"), LAMBDA dataset_parts :
    Bind(group(e), LAMBDA grp :
        IF Len(dataset_parts) < 2 THEN Raise("IndexError", "list index out of range")
        ELSE IF Len(e.variables) < 2 /\ StartsWith(Join(e.variables, ""), "group")
                /\ dataset_parts[Len(dataset_parts)] = dataset_parts[2]
             THEN [exc |-> "none", value |-> "detailed"]
        ELSE IF dataset_parts[Len(dataset_parts)] = "profile"
             THEN IF grp = Null THEN Raise("TypeError", "'NoneType' object is not subscriptable")
                  ELSE IF grp = "" THEN Raise("IndexError", "string index out of range")
                  ELSE IF Ch(grp, 1) = "D" THEN [exc |-> "none", value |-> "dataprofile"]
                  ELSE IF Ch(grp, 1) = "C" THEN [exc |-> "none", value |-> "cprofile"]
                  ELSE [exc |-> "none", value |-> "unknown"]
        ELSE IF dataset_parts[Len(dataset_parts)] \in TableTypeNames
             THEN [exc |-> "none", value |-> dataset_parts[Len(dataset_parts)]]
        ELSE [exc |-> "none", value |-> "unknown"]))

\* the URL of the variable labels, or the exception table_type raises
variable_endpoint(e) ==
    Bind(table_type(e), LAMBDA tt :
        IF IsRaised(tt) THEN tt
        ELSE IF tt.value = "unknown" \/ (tt.value = "subject" /\ group(e) = Null)
             THEN [exc |-> "none", value |-> UrlPath(e) \o "/variables"]
        ELSE IF group(e) = Null
             THEN [exc |-> "none", value |-> UrlPath(e) \o "/groups/None"]
        ELSE [exc |-> "none", value |-> UrlPath(e) \o "/groups/" \o group(e)])

(***************************************************************************)
(* polars expressions on one string value; Null stands for a null cell     *)
(***************************************************************************)
\* Expr.str.replace_all("\\(|\\)", " ")
ParensToSpace(s) ==
    Bind(s, LAMBDA v :
        Concat([i \in 1..Len(v) |-> IF Ch(v, i) \in {"(", ")"} THEN " " ELSE Ch(v, i)]))

\* Expr.str.replace_all("--|:", ""): the leftmost non-overlapping "--" and every ":" go
DropDashesColons(s) == Concat(Split(Concat(Split(s, "--")), ":"))

\* Expr.str.to_lowercase()
LowerOf == [c \in CharsOf(Upper) |-> Ch(Lower, CHOOSE j \in 1..Len(Upper) : Ch(Upper, j) = c)]
LowerChar(c) == IF c \in DOMAIN LowerOf THEN LowerOf[c] ELSE c
to_lowercase(s) == Bind(s, LAMBDA v : Concat([i \in 1..Len(v) |-> LowerChar(Ch(v, i))]))

\* Expr.str.count_matches(sub, literal=True): non-overlapping occurrences
count_matches(s, sub) == Len(Split(s, sub)) - 1

\* Expr.str.split_exact(by, n): n + 1 fields, the pieces beyond them dropped,
\* the missing ones null; every field null for a null string
split_exact(s, by, n) ==
    Bind(IF s = Null THEN <<>> ELSE Split(s, by), LAMBDA pieces :
        [k \in 1..(n + 1) |-> IF k <= Len(pieces) THEN pieces[k] ELSE Null])

\* Expr.str.split(by).list.first()
SplitFirst(s, by) == IF s = Null THEN Null ELSE Split(s, by)[1]

\* Expr.str.slice(offset, length) with offset >= 0; str_slice_from has no length
str_slice(s, offset, length) ==
    IF s = Null THEN Null
    ELSE SubSeq(s, offset + 1, IF offset + length < Len(s) THEN offset + length ELSE Len(s))
str_slice_from(s, offset) == IF s = Null THEN Null ELSE From(s, offset + 1)

\* Expr.str.extract(r"^(\d+)"): the leading digits, null when there are none
extract_leading_digits(s) ==
    IF s = Null THEN Null
    ELSE Bind({i \in 1..Len(s) : Ch(s, i) \notin Digits}, LAMBDA stops :
             Bind(IF stops = {} THEN Len(s) ELSE Min(stops) - 1, LAMBDA n :
                 IF n = 0 THEN Null ELSE SubSeq(s, 1, n)))

\* Expr.str.extract(r"(\D+)$"): the trailing non-digits, null when there are none
extract_trailing_nondigits(s) ==
    IF s = Null THEN Null
    ELSE Bind({i \in 1..Len(s) : Ch(s, i) \in Digits}, LAMBDA ds :
             Bind(IF ds = {} THEN 1 ELSE Max(ds) + 1, LAMBDA k :
                 IF k > Len(s) THEN Null ELSE From(s, k)))

\* Expr.str.to_integer(): null stays null (NullInt)
to_integer(s) == IF s = Null THEN NullInt ELSE StrToInt(s)

\* Expr.replace("", None) on a string cell
EmptyToNull(s) == IF s = "" THEN Null ELSE s

\* the concatenation of the sequences of a sequence, from index i on
RECURSIVE FlattenFrom(_, _)
FlattenFrom(seqs, i) == IF i > Len(seqs) THEN <<>> ELSE seqs[i] \o FlattenFrom(seqs, i + 1)
Flatten(seqs) == Bind(seqs, LAMBDA v : FlattenFrom(v, 1))

\* the set of the elements of a sequence
Range(f) == {f[i] : i \in 1..Len(f)}

(***************************************************************************)
(* APIData: frames are sequences of rows, a row is a record of cells       *)
(***************************************************************************)
\* what a method returns: a frame, or the exception it raises
Returns(frame) == [exc |-> "none", frame |-> frame]

\* the computed groups of the requested variables (_lazyframe, variable_groups)
variable_groups(endpoint) ==
    UNION { { SplitFirst(piece, "_") :
                piece \in Range(Split(Strip(ParensToSpace(endpoint.variables[i]), Whitespace), " ")) } :
            i \in 1..Len(endpoint.variables) }

\* LazyFrame(raw[1:], schema=raw[0]).with_row_index("stratifier_id", offset=1)
\*   .unpivot(index="stratifier_id"): one row per cell, column after column
unpivot(raw) ==
    Bind(Len(raw) - 1, LAMBDA n :
        [k \in 1..(n * Len(raw[1])) |->
            [stratifier_id |-> ((k - 1) % n) + 1,
             variable |-> raw[1][((k - 1) \div n) + 1],
             value |-> raw[((k - 1) % n) + 2][((k - 1) \div n) + 1]]])

\* the rows a long row becomes in an inner join: an unmatched row is dropped
LeftJoinRow_inner(row, labels) ==
    Bind(SelectSeq(labels, LAMBDA l : l.variable = row.variable), LAMBDA hits :
        [h \in 1..Len(hits) |->
            [stratifier_id |-> row.stratifier_id, variable |-> row.variable, value |-> row.value,
             group |-> hits[h].group, label |-> hits[h].label, concept |-> hits[h].concept,
             universe |-> hits[h].universe]])

\* the rows a long row becomes in .join(labels, how="left", on="variable")
LeftJoinRow(row, labels) ==
    Bind(SelectSeq(labels, LAMBDA l : l.variable = row.variable), LAMBDA hits :
        IF Len(hits) = 0
        THEN << [stratifier_id |-> row.stratifier_id, variable |-> row.variable, value |-> row.value,
                 group |-> Null, label |-> Null, concept |-> Null, universe |-> Null] >>
        ELSE [h \in 1..Len(hits) |->
                [stratifier_id |-> row.stratifier_id, variable |-> row.variable, value |-> row.value,
                 group |-> hits[h].group, label |-> hits[h].label, concept |-> hits[h].concept,
                 universe |-> hits[h].universe]])

\* APIDataMixin._lazyframe, from the raw payload, the label table and dt.now()
_lazyframe(endpoint, raw, var_labels, now) ==
    Bind(variable_groups(endpoint), LAMBDA groups :
    Bind(SelectSeq(var_labels, LAMBDA l : l.group # Null /\ l.group \in groups),
         LAMBDA relevant_variable_labels :
    Bind(unpivot(raw), LAMBDA long_rows :
    Bind(Flatten([k \in 1..Len(long_rows) |-> LeftJoinRow(long_rows[k], relevant_variable_labels)]),
         LAMBDA joined :
        [k \in 1..Len(joined) |->
            [row_id |-> k,
             stratifier_id |-> joined[k].stratifier_id,
             variable |-> joined[k].variable,
             group |-> joined[k].group,
             value |-> joined[k].value,
             label |-> joined[k].label,
             concept |-> joined[k].concept,
             universe |-> joined[k].universe,
             date_pulled |-> now]]))))

\* the filter of _extra: the variable's computed group is not an expected group
IsExtra_groupless(row, expected) ==
    row.group = Null \/ SplitFirst(row.variable, "_") \notin expected
IsExtra(row, expected) == SplitFirst(row.variable, "_") \notin expected

\* APIDataMixin._extra and _no_extra on a long frame
expected_groups(frame) == {frame[k].group : k \in 1..Len(frame)} \ {Null}
_extra(frame) ==
    Bind(expected_groups(frame), LAMBDA expected :
        SelectSeq(frame, LAMBDA row : IsExtra(row, expected)))
_no_extra(frame) ==
    Bind({row.row_id : row \in Range(_extra(frame))}, LAMBDA extra_ids :
        SelectSeq(frame, LAMBDA row : row.row_id \notin extra_ids))

\* the cleaning _parse_label applies to each label part:
\* .str.replace_all(r"--|:", "").str.strip_chars().str.to_lowercase()
CleanPart(part) ==
    IF part = Null THEN Null ELSE to_lowercase(Strip(DropDashesColons(part), Whitespace))

\* a concatenation that reads a null as the empty string
concat_str_space_nullasempty(a, b) ==
    (IF a = Null THEN "" ELSE a) \o " " \o (IF b = Null THEN "" ELSE b)

\* pl.concat_str([a, b], separator=" "): null as soon as one of them is null
concat_str_space(a, b) == IF a = Null \/ b = Null THEN Null ELSE a \o " " \o b

\* the label columns _parse_label adds to one row
LabelColumns(label) ==
    Bind(split_exact(label, "!!", 4), LAMBDA parts :
        [exclaim_count |-> IF label = Null THEN NullInt ELSE count_matches(label, "!!"),
         label_line_type |-> CleanPart(parts[1]),
         label_concept_base |-> CleanPart(parts[2]),
         label_stratifier |-> CleanPart(parts[3]),
         label_end |-> concat_str_space(CleanPart(parts[4]),
                                        CleanPart(IF parts[5] = Null THEN "" ELSE parts[5]))])

\* APIDataMixin._parse_label on a long frame: the non-extra rows with their label columns
_parse_label(frame) ==
    Bind(_no_extra(frame), LAMBDA origin :
        [k \in 1..Len(origin) |->
            Bind(LabelColumns(origin[k].label), LAMBDA c :
                [row_id |-> origin[k].row_id,
                 stratifier_id |-> origin[k].stratifier_id,
                 variable |-> origin[k].variable,
                 label |-> origin[k].label,
                 exclaim_count |-> c.exclaim_count,
                 label_line_type |-> c.label_line_type,
                 label_concept_base |-> c.label_concept_base,
                 label_stratifier |-> c.label_stratifier,
                 label_end |-> c.label_end])])

\* pl.struct(...).rank("dense"): the rank of key among keys, 1 for the
\* smallest; keys are triples of integers compared field by field, a null
\* field (NullInt) before every number
StructLeq(a, b) ==
    \/ a[1] < b[1]
    \/ a[1] = b[1] /\ a[2] < b[2]
    \/ a[1] = b[1] /\ a[2] = b[2] /\ a[3] <= b[3]
DenseRank(key, keys) == Cardinality({k \in keys : StructLeq(k, key)})

\* dataops.helpers.polars.ensure_column_exists(frame, final_vars, ""), then
\* .replace("", None): the columns the frame lacks are added and end up null
NoVarColumns ==
    [table_type |-> Null, table_id |-> Null, table_subject_id |-> Null,
     subject_table_number |-> Null, table_id_suffix |-> Null, column_id |-> Null,
     column_number |-> NullInt, line_id |-> Null, line_number |-> NullInt, line_suffix |-> Null]

\* common_var_meta_expr, common_line_expr and replace("", None) on the parts of
\* one variable; column_number is given by the branch
VarColumns(table_id, column_id, column_number, line_id) ==
    [table_type |-> EmptyToNull(str_slice(table_id, 0, 1)),
     table_id |-> EmptyToNull(table_id),
     table_subject_id |-> EmptyToNull(str_slice(table_id, 1, 2)),
     subject_table_number |-> EmptyToNull(str_slice(table_id, 3, 3)),
     table_id_suffix |-> EmptyToNull(str_slice_from(table_id, 6)),
     column_id |-> EmptyToNull(column_id),
     column_number |-> column_number,
     line_id |-> EmptyToNull(line_id),
     line_number |-> to_integer(extract_leading_digits(line_id)),
     line_suffix |-> EmptyToNull(extract_trailing_nondigits(line_id))]

\* a decoding that keeps the second part as the column as well
DetailedColumns_keepcol(variable) ==
    Bind(split_exact(variable, "_", 1), LAMBDA parts :
        VarColumns(parts[1], parts[2], NullInt, parts[2]))

\* the branch for table types detailed and dataprofile: split_exact("_", 1)
\* names table_id and line_id, there is no column part
DetailedColumns(variable) ==
    Bind(split_exact(variable, "_", 1), LAMBDA parts :
        VarColumns(parts[1], Null, NullInt, parts[2]))

\* the branch for table type subject: split_exact("_", 2) names table_id,
\* column_id and line_id; column_number is column_id.str.slice(-2).str.to_integer()
SubjectColumnNumber(column_id) ==
    IF column_id = Null THEN NullInt
    ELSE to_integer(SubSeq(column_id, IF Len(column_id) > 2 THEN Len(column_id) - 1 ELSE 1, Len(column_id)))
SubjectColumns(variable) ==
    Bind(split_exact(variable, "_", 2), LAMBDA parts :
        VarColumns(parts[1], parts[2], SubjectColumnNumber(parts[2]), parts[3]))

\* the strict to_integer of the subject branch raises on a column_id whose
\* last two characters are not all digits
SubjectColumnFails(variable) ==
    Bind(split_exact(variable, "_", 2)[2], LAMBDA column_id :
        column_id # Null /\ ~AllDigits(SubSeq(column_id, IF Len(column_id) > 2 THEN Len(column_id) - 1 ELSE 1,
                                              Len(column_id))))

\* the structural columns of one non-extra row under a table type
ColumnsFor_alwaysDecode(tt, variable) ==
    IF tt = "subject" THEN SubjectColumns(variable)
    ELSE DetailedColumns(variable)
ColumnsFor(tt, variable) ==
    IF tt = "subject" THEN SubjectColumns(variable)
    ELSE IF tt \in {"detailed", "dataprofile"} THEN DetailedColumns(variable)
    ELSE NoVarColumns

\* measure_id_expr on the non-extra rows: the dense rank of
\* (stratifier_id, column_number, line_number)
MeasureKey(row, cols) == <<row.stratifier_id, cols.column_number, cols.line_number>>

\* one row of the output of _parse_vars: final_vars, after replace("", None)
VarRow(row, cols, measure_id) ==
    [stratifier_id |-> row.stratifier_id,
     row_id |-> row.row_id,
     variable |-> EmptyToNull(row.variable),
     measure_id |-> measure_id,
     group |-> EmptyToNull(row.group),
     value |-> EmptyToNull(row.value),
     label |-> EmptyToNull(row.label),
     concept |-> EmptyToNull(row.concept),
     universe |-> EmptyToNull(row.universe),
     date_pulled |-> row.date_pulled,
     table_type |-> cols.table_type,
     table_id |-> cols.table_id,
     table_subject_id |-> cols.table_subject_id,
     subject_table_number |-> cols.subject_table_number,
     table_id_suffix |-> cols.table_id_suffix,
     column_id |-> cols.column_id,
     column_number |-> cols.column_number,
     line_id |-> cols.line_id,
     line_number |-> cols.line_number,
     line_suffix |-> cols.line_suffix]

\* APIDataMixin._parse_vars on a long frame, for the endpoint's table type tt:
\* the decoded non-extra rows and the extra rows, in row_id order
ParsedVarRows(tt, frame) ==
    Bind(expected_groups(frame), LAMBDA expected :
    Bind([k \in 1..Len(frame) |->
            IF IsExtra(frame[k], expected) THEN NoVarColumns ELSE ColumnsFor(tt, frame[k].variable)],
         LAMBDA cols :
    Bind({MeasureKey(frame[k], cols[k]) : k \in {j \in 1..Len(frame) : ~IsExtra(frame[j], expected)}},
         LAMBDA keys :
        [k \in 1..Len(frame) |->
            VarRow(frame[k], cols[k],
                   IF IsExtra(frame[k], expected) \/ tt \notin {"subject", "detailed", "dataprofile"}
                   THEN NullInt
                   ELSE DenseRank(MeasureKey(frame[k], cols[k]), keys))])))

_parse_vars(endpoint, frame) ==
    Bind(table_type(endpoint), LAMBDA tt :
        IF IsRaised(tt) THEN tt
        ELSE IF tt.value = "subject"
                /\ \E row \in Range(_no_extra(frame)) : SubjectColumnFails(row.variable)
             THEN Raise("ComputeError", "strict integer parsing failed")
        ELSE Returns(ParsedVarRows(tt.value, frame)))

\* pl.col("value").cast(pl.Float32, strict=False) for the values of the model:
\* the number a string of digits denotes, null for any other text
value_numeric(value) == IF value # Null /\ AllDigits(value) THEN StrToInt(value) ELSE NullInt

\* APIData.standard_parse on a long frame: the frame's columns, the endpoint's
\* literals, and the label and variable columns left-joined on row_id
standard_parse(endpoint, frame) ==
    Bind(_parse_vars(endpoint, frame), LAMBDA pv :
        IF IsRaised(pv) THEN pv
        ELSE
        Bind(_parse_label(frame), LAMBDA pl :
        Bind(url_no_key(endpoint), LAMBDA endpoint_url :
            Returns([k \in 1..Len(frame) |->
                Bind(SelectSeq(pl, LAMBDA r : r.row_id = frame[k].row_id), LAMBDA ls :
                Bind(SelectSeq(pv.frame, LAMBDA r : r.row_id = frame[k].row_id /\ r.table_type # Null),
                     LAMBDA vs :
                    [stratifier_id |-> frame[k].stratifier_id,
                     row_id |-> frame[k].row_id,
                     measure_id |-> IF Len(vs) = 0 THEN NullInt ELSE vs[1].measure_id,
                     endpoint |-> endpoint_url,
                     year |-> endpoint.year,
                     variable |-> frame[k].variable,
                     group |-> frame[k].group,
                     label |-> frame[k].label,
                     concept |-> frame[k].concept,
                     universe |-> frame[k].universe,
                     url_geography |-> endpoint.geography,
                     value |-> frame[k].value,
                     value_numeric |-> value_numeric(frame[k].value),
                     exclaim_count |-> IF Len(ls) = 0 THEN NullInt ELSE ls[1].exclaim_count,
                     label_line_type |-> IF Len(ls) = 0 THEN Null ELSE ls[1].label_line_type,
                     label_concept_base |-> IF Len(ls) = 0 THEN Null ELSE ls[1].label_concept_base,
                     label_stratifier |-> IF Len(ls) = 0 THEN Null ELSE ls[1].label_stratifier,
                     label_end |-> IF Len(ls) = 0 THEN Null ELSE ls[1].label_end,
                     table_type |-> IF Len(vs) = 0 THEN Null ELSE vs[1].table_type,
                     table_id |-> IF Len(vs) = 0 THEN Null ELSE vs[1].table_id,
                     table_subject_id |-> IF Len(vs) = 0 THEN Null ELSE vs[1].table_subject_id,
                     subject_table_number |-> IF Len(vs) = 0 THEN Null ELSE vs[1].subject_table_number,
                     table_id_suffix |-> IF Len(vs) = 0 THEN Null ELSE vs[1].table_id_suffix,
                     column_id |-> IF Len(vs) = 0 THEN Null ELSE vs[1].column_id,
                     column_number |-> IF Len(vs) = 0 THEN NullInt ELSE vs[1].column_number,
                     line_id |-> IF Len(vs) = 0 THEN Null ELSE vs[1].line_id,
                     line_number |-> IF Len(vs) = 0 THEN NullInt ELSE vs[1].line_number,
                     line_suffix |-> IF Len(vs) = 0 THEN Null ELSE vs[1].line_suffix,
                     date_pulled |-> frame[k].date_pulled]))]))))

\* APIData.long: standard_parse is evaluated, then the call
\* .with_row_index("row_id", offet=1) raises before anything is collected
long(endpoint, frame) ==
    Bind(standard_parse(endpoint, frame), LAMBDA sp :
        IF IsRaised(sp) THEN sp
        ELSE Raise("TypeError", "with_row_index() got an unexpected keyword argument 'offet'"))

(***************************************************************************)
(* APIData object: the server's two payloads, the object's cached          *)
(* properties, and the calls a client makes on it in any order.            *)
(***************************************************************************)
Unset == [set |-> FALSE]
Cached(v) == [set |-> TRUE, value |-> v]

MaxRows == 2

\* the endpoints of the model, one per table type, built by the constructor
Ep(dataset, variables) ==
    APIEndpoint(2023, dataset, variables, "ucgid:0400000US09", Null, EnvToken("T0"))
DataEndpoints ==
    {Ep("acs/acs5", <<"group(B05006)">>), Ep("acs/acs5/profile", <<"group(DP05)">>),
     Ep("acs/acs5/subject", <<"group(S0101)">>), Ep("acs/acs5", <<"NAME", "B05006_001E">>),
     Ep("acs/acs5/profile", <<"group(CP05)">>)}

\* the table a variable code of the endpoint starts with, and the codes the
\* server may send as header columns
TableOf(e) == IF group(e) = Null THEN "B05006" ELSE group(e)
LinePrefix(e) == IF Contains(e.dataset, "subject") THEN "C01_" ELSE ""
ColumnPool(e) ==
    Bind(TableOf(e) \o "_" \o LinePrefix(e), LAMBDA t :
        <<"NAME", t \o "001E", t \o "001M", t \o "002EA", TableOf(e)>>)
PoolValues ==
    << <<"Town X", "500", "25", "-", "">>,
       <<"Town Y", "740", "31", "*", "9">>,
       <<"Town X", "12", "3", "", "0">> >>

\* the headers of the model: windows (first, last) of the pool
HeaderWindows == {<<1, 3>>, <<2, 4>>, <<3, 5>>, <<1, 1>>, <<2, 2>>, <<4, 5>>}

\* a raw response: the header is a window of the pool, then n data rows
RawResponse(e, w, n) ==
    <<SubSeq(ColumnPool(e), w[1], w[2])>> \o [r \in 1..n |-> SubSeq(PoolValues[r], w[1], w[2])]
RawResponses(e) == {RawResponse(e, w, n) : w \in HeaderWindows, n \in 1..MaxRows}

LabelTexts ==
    <<"Estimate",
      "Estimate!!Total:",
      "Estimate!!Total:!!Europe:",
      "Margin of Error!!Total:!!",
      "Estimate!!Total:!!Europe:!!North:",
      "Percent!!SEX AND AGE!!Total!!Male!!Under 5",
      "Estimate!!Total:!!Americas:!!Latin:!!Carib:!!Cuba--born">>

\* the label row of the pool's j-th code, its text the t-th after it in LabelTexts
LabelRow(e, j, t, grp) ==
    [variable |-> ColumnPool(e)[j],
     label |-> LabelTexts[((t + j) % Len(LabelTexts)) + 1],
     concept |-> IF j = 1 THEN Null ELSE "PLACE OF BIRTH",
     group |-> grp,
     universe |-> "unknown as queried"]

\* the label tables the metadata request may yield: every code of the table's
\* group (with two assignments of texts), those and NAME, one code only, no
\* code, or the whole catalogue with each code's own prefix as its group
LabelTables(e) ==
    { [j \in 1..4 |-> LabelRow(e, j + 1, 0, TableOf(e))],
      [j \in 1..4 |-> LabelRow(e, j + 1, 3, TableOf(e))],
      [j \in 1..5 |-> LabelRow(e, j, 0, TableOf(e))],
      << LabelRow(e, 2, 3, TableOf(e)) >>,
      <<>>,
      [j \in 1..5 |-> LabelRow(e, j, 0, SplitFirst(ColumnPool(e)[j], "_"))] }

Clock == {"2026-01-01", "2026-01-02"}

(***************************************************************************)
(* The fetch collaborator: CensusAPIDataSource.fetch                       *)
(***************************************************************************)
MaxFetches == 2

SourceUrls ==
    {"https://api.census.gov/data/2023/acs/acs1/subject?get=group(S1601)&for=state:09",
     "https://api.census.gov/data/2023/acs/acs5?get=NAME&for=state:09"}

\* response.json(): the bodies that are JSON text, and what each decodes to
JsonOf ==
    "[[\"NAME\"],[\"Connecticut\"]]" :> <<<<"NAME">>, <<"Connecticut">>>> @@
    "[]" :> <<>>
Bodies == DOMAIN JsonOf \cup {"<html>Service unavailable</html>", ""}
Statuses == {200, 404, 500}

\* what requests.get(url, timeout=30) meets: no response at all (connection
\* error, timeout), or a response with a status and a body
NoResponse == [kind |-> "transport", status |-> NullInt, body |-> ""]
NetOutcomes ==
    {NoResponse} \cup {[kind |-> "response", status |-> s, body |-> b] : s \in Statuses, b \in Bodies}

Event(ev, u, o, data) ==
    [ev |-> ev, url |-> u, kind |-> o.kind, status |-> o.status, body |-> o.body, data |-> data]

SourceIdle ==
    source = [pc |-> "idle", url |-> Null, response |-> NoResponse, trace |-> <<>>]

FetchCalls(s) == Cardinality({k \in DOMAIN s.trace : s.trace[k].ev = "call"})

\* the variables of the other components, at rest
DataIdle ==
    /\ response = <<>>
    /\ labels_response = <<>>
    /\ apidata = [endpoint |-> Pending, _raw |-> Unset, _var_labels |-> Unset, _lazyframe |-> Unset,
                  concept |-> Unset]
    /\ called = "none"
    /\ out = Pending
    /\ fetchlog = <<>>
BuilderIdle ==
    /\ builder = [api_data |-> [kind |-> "none"]]
    /\ blog = <<>>
\* no direct construction was made, no property was read
NoArgs == [year |-> 0, dataset |-> "", variables |-> <<>>, geography |-> "", api_key |-> Null]
NoRead == [name |-> "none"]

UrlIdle ==
    /\ url = ""
    /\ envToken = EnvUnset
    /\ upc = "idle"
    /\ ep = Pending
    /\ rebuiltWith = "none"
    /\ rebuilt = Null
    /\ ep2 = Pending
    /\ given = NoArgs
    /\ read = NoRead

\* APIData(endpoint=e): nothing fetched, nothing cached
NewAPIData(e) ==
    [endpoint |-> e, _raw |-> Unset, _var_labels |-> Unset, _lazyframe |-> Unset, concept |-> Unset]

DataInit ==
    /\ \E e \in DataEndpoints :
        /\ apidata = NewAPIData(e)
        /\ response \in RawResponses(e)
        /\ labels_response \in LabelTables(e)
    /\ called = "none"
    /\ out = Pending
    /\ fetchlog = <<>>
    /\ UrlIdle
    /\ BuilderIdle
    /\ SourceIdle

\* the first read of _lazyframe fetches the labels and the payload and stamps
\* the rows with now; the cached properties keep what they were given
Fetched(now) ==
    [apidata EXCEPT !._var_labels = Cached(labels_response),
                    !._raw = Cached(response),
                    !._lazyframe = Cached(_lazyframe(apidata.endpoint, response, labels_response, now))]

\* the requests that first read makes: get(variable_endpoint, dataset) in
\* _var_labels, then get(full_url, dataset) in _raw
Fetches ==
    << [url |-> variable_endpoint(apidata.endpoint).value, payload |-> labels_response],
       [url |-> full_url(apidata.endpoint), payload |-> response] >>

\* cached_property: the body runs when the object holds no value for it
Cold_always(obj) == TRUE
Cold(obj) == ~obj._lazyframe.set

\* every use of _lazyframe: on a cold cache the two requests are made and
\* the three properties cached, otherwise nothing is fetched
Use_lazyframe ==
    IF Cold(apidata)
    THEN /\ \E now \in Clock : apidata' = Fetched(now)
         /\ fetchlog' = fetchlog \o Fetches
    ELSE UNCHANGED <<apidata, fetchlog>>

\* a client call: the caches are filled on first use, the call's result is kept
Call(Method(_)) ==
    /\ Use_lazyframe
    /\ out' = Method(apidata'._lazyframe.value)
    /\ UNCHANGED <<response, labels_response, notDataVars>>

Read_lazyframe == Call(LAMBDA frame : Returns(frame)) /\ called' = "_lazyframe"
Read_extra == Call(LAMBDA frame : Returns(_extra(frame))) /\ called' = "_extra"
Read_no_extra == Call(LAMBDA frame : Returns(_no_extra(frame))) /\ called' = "_no_extra"
Call_parse_label == Call(LAMBDA frame : Returns(_parse_label(frame))) /\ called' = "_parse_label"
Call_parse_vars == Call(LAMBDA frame : _parse_vars(apidata.endpoint, frame)) /\ called' = "_parse_vars"
Call_standard_parse == Call(LAMBDA frame : standard_parse(apidata.endpoint, frame)) /\ called' = "standard_parse"
Call_long == Call(LAMBDA frame : long(apidata.endpoint, frame)) /\ called' = "long"

\* concept (cached): the distinct non-null concepts of the rows whose code
\* starts with their group, in the order unique() happens to leave them
ConceptSet(frame) ==
    {frame[n].concept :
        n \in {m \in DOMAIN frame : /\ frame[m].group # Null
                                    /\ SplitFirst(frame[m].variable, "_") = frame[m].group
                                    /\ frame[m].concept # Null}}
ConceptLists(frame) ==
    {cs \in [1..Cardinality(ConceptSet(frame)) -> ConceptSet(frame)] :
        \A i, j \in DOMAIN cs : cs[i] = cs[j] => i = j}

Read_concept ==
    /\ \E now \in Clock :
          \E base \in {IF Cold(apidata) THEN Fetched(now) ELSE apidata} :
             \E cs \in ConceptLists(base._lazyframe.value) :
                apidata' = [base EXCEPT !.concept = IF @.set THEN @ ELSE Cached(cs)]
    /\ fetchlog' = IF Cold(apidata) THEN fetchlog \o Fetches ELSE fetchlog
    /\ out' = Returns(apidata'.concept.value)
    /\ called' = "concept"
    /\ UNCHANGED <<response, labels_response, notDataVars>>

DataNext ==
    \/ Read_lazyframe
    \/ Read_extra
    \/ Read_no_extra
    \/ Call_parse_label
    \/ Call_parse_vars
    \/ Call_standard_parse
    \/ Call_long

(***************************************************************************)
(* Endpoint descriptor: a caller parses a URL, rebuilds a URL from the     *)
(* descriptor and parses that again.                                       *)
(***************************************************************************)
UrlOrigin == "https://api.census.gov"
UrlPaths ==
    {"", "/", "/data/2023", "/info/2023/acs/acs5", "/data/2023/acs", "/data/2023/acs/acs5",
     "/data/2023/acs/acs5/profile", "/data/2023/acs/acs1/subject", "/data/2004/acs/acs5",
     "/data/20x3/acs/acs5", "/data/02023/acs//acs5/"}
UrlGets == {"", "get=", "get=NAME", "get=group(B05006)", "get=group%28DP05%29", "get=NAME,B05006_001E"}
UrlGeos ==
    {"", "for=", "for=state:09", "ucgid=pseudo(0400000US09$0600000)",
     "in=state:09&for=tract:*", "ucgid=0400000US09&in=state:09"}
UrlKeys == {"", "key=K1"}
Envs == {EnvUnset, EnvNoToken, EnvToken(""), EnvToken("T0")}

\* the URL text made of a path and the query pieces that are present
MakeUrl(path, get, geo, key) ==
    Bind(SelectSeq(<<get, geo, key>>, LAMBDA q : q # ""), LAMBDA pieces :
        UrlOrigin \o path \o (IF Len(pieces) = 0 THEN "" ELSE "?" \o Join(pieces, "&")))

UrlInit ==
    /\ url \in {MakeUrl(p, g, o, k) : p \in UrlPaths, g \in UrlGets, o \in UrlGeos, k \in UrlKeys}
    /\ envToken \in Envs
    /\ upc = "start"
    /\ ep = Pending
    /\ rebuiltWith = "none"
    /\ rebuilt = Null
    /\ ep2 = Pending
    /\ given = NoArgs
    /\ read = NoRead
    /\ DataIdle
    /\ BuilderIdle
    /\ SourceIdle

Parse ==
    /\ upc = "start"
    /\ ep' = from_url(url, envToken)
    /\ upc' = "parsed"
    /\ UNCHANGED <<url, envToken, rebuiltWith, rebuilt, ep2, given, read, notUrlVars>>

RebuildNoKey ==
    /\ upc = "parsed"
    /\ ~IsRaised(ep)
    /\ rebuilt' = url_no_key(ep)
    /\ rebuiltWith' = "url_no_key"
    /\ upc' = "rebuilt"
    /\ UNCHANGED <<url, envToken, ep, ep2, given, read, notUrlVars>>

RebuildFull ==
    /\ upc = "parsed"
    /\ ~IsRaised(ep)
    /\ rebuilt' = full_url(ep)
    /\ rebuiltWith' = "full_url"
    /\ upc' = "rebuilt"
    /\ UNCHANGED <<url, envToken, ep, ep2, given, read, notUrlVars>>

Reparse ==
    /\ upc = "rebuilt"
    /\ ep2' = from_url(rebuilt, envToken)
    /\ upc' = "reparsed"
    /\ UNCHANGED <<url, envToken, ep, rebuiltWith, rebuilt, given, read, notUrlVars>>

UrlNext == Parse \/ RebuildNoKey \/ RebuildFull \/ Reparse

SpecUrl == UrlInit /\ [][UrlNext]_vars

SpecData == DataInit /\ [][DataNext]_vars

(***************************************************************************)
(* One APIData object over a server whose payloads change between calls.   *)
(***************************************************************************)
FetchEndpoint == Ep("acs/acs5", <<"group(B05006)">>)
ServerPayloads == {RawResponse(FetchEndpoint, <<1, 3>>, 1), RawResponse(FetchEndpoint, <<2, 4>>, 1)}
ServerLabels == {<<>>, << LabelRow(FetchEndpoint, 2, 3, "B05006") >>}

FetchInit ==
    /\ apidata = NewAPIData(FetchEndpoint)
    /\ response \in ServerPayloads
    /\ labels_response \in ServerLabels
    /\ called = "none"
    /\ out = Pending
    /\ fetchlog = <<>>
    /\ UrlIdle
    /\ BuilderIdle
    /\ SourceIdle

\* the server's data or its label catalogue changes
ServerChanges ==
    /\ \E r \in ServerPayloads, l \in ServerLabels :
          /\ <<r, l>> # <<response, labels_response>>
          /\ response' = r
          /\ labels_response' = l
    /\ UNCHANGED <<apidata, called, out, fetchlog, notDataVars>>

FetchNext ==
    \/ Read_lazyframe
    \/ Read_extra
    \/ Read_no_extra
    \/ Call_parse_label
    \/ Call_parse_vars
    \/ Call_standard_parse
    \/ Call_long
    \/ Read_concept
    \/ ServerChanges

SpecFetch == FetchInit /\ [][FetchNext]_vars

(***************************************************************************)
(* ACSStarModelBuilder: a client constructs a builder on a tidy table or   *)
(* on an APIData object, calls set_* methods and build() in any order and  *)
(* catches what they raise.                                                *)
(***************************************************************************)
MaxCalls == 2

\* pl.LazyFrame(): the default of every slot
EmptyFrame == <<>>

\* one row of a tidy (long) table
TidyRow(endpoint, stratifier_id, row_id, measure_id, variable, value, value_type, text) ==
    [stratifier_id |-> stratifier_id, row_id |-> row_id, measure_id |-> measure_id,
     universe |-> text, concept |-> text, measure |-> text, value_type |-> value_type,
     value |-> value, variable |-> variable, endpoint |-> endpoint, year |-> 2023,
     dataset |-> "acs/acs5", date_pulled |-> "2026-01-01"]

\* the tidy rows of one endpoint with one geography: its NAME stratifier row
\* and the estimate and margin rows of one measure
TidyOf(endpoint, town) ==
    << TidyRow(endpoint, 1, 1, NullInt, "NAME", town, "NAME", "NAME"),
       TidyRow(endpoint, 1, 2, 1, "B05006_001E", "500", "estimate", "total"),
       TidyRow(endpoint, 1, 3, 1, "B05006_001M", "25", "margin of error", "total") >>

\* the tidy inputs of the model: one endpoint; two endpoints whose stratifier
\* rows carry the same (variable, value) set; two whose sets differ in one value
TidyInputs ==
    { TidyOf("https://api.census.gov/data/2023/acs/acs5?get=A", "Town X"),
      TidyOf("https://api.census.gov/data/2023/acs/acs5?get=A", "Town X")
        \o TidyOf("https://api.census.gov/data/2023/acs/acs5?get=B", "Town X"),
      TidyOf("https://api.census.gov/data/2023/acs/acs5?get=A", "Town X")
        \o TidyOf("https://api.census.gov/data/2023/acs/acs5?get=B", "Town Y") }

\* the methods of the builder and the slot each one assigns
SlotOf ==
    [set_fact |-> "fact", set_measure |-> "dim_measure", set_universe |-> "dim_universe",
     set_concept |-> "dim_concept", set_endpoint |-> "dim_endpoint",
     set_valuetype |-> "dim_valuetype", set_dataset |-> "dim_dataset",
     set_stratifiers_wide |-> "dim_stratifiers", set_stratifiers |-> "dim_stratifiers",
     set_stratifiers_long |-> "dim_stratifiers"]
Slots == {SlotOf[m] : m \in DOMAIN SlotOf}

\* the table a client hands to a set_* method instead of having it derived
GivenTable(slot) ==
    IF slot = "fact"
    THEN << [FactID |-> 1, DimUniverseID |-> 1, DimConceptID |-> 1, DimEndpointID |-> 1,
             DimDatasetID |-> 1, DimValueTypeID |-> 1, DimMeasureID |-> 1, DimStratifierID |-> 1,
             value |-> "500"] >>
    ELSE << [table |-> slot, key |-> 1, text |-> "given"] >>

\* the table handed to one method: each of the three stratifier methods is
\* handed a table of its own
GivenTo(method) ==
    IF SlotOf[method] = "dim_stratifiers"
    THEN << [table |-> "dim_stratifiers", key |-> 1, text |-> method] >>
    ELSE GivenTable(SlotOf[method])

\* ACSStarModelBuilder(api_data=...): every slot is an empty frame
NewBuilder_prefilled(api_data) ==
    [api_data |-> api_data, fact |-> GivenTable("fact"), dim_measure |-> EmptyFrame,
     dim_stratifiers |-> EmptyFrame, dim_universe |-> EmptyFrame, dim_concept |-> EmptyFrame,
     dim_endpoint |-> EmptyFrame, dim_valuetype |-> EmptyFrame, dim_dataset |-> EmptyFrame]
NewBuilder(api_data) ==
    [api_data |-> api_data, fact |-> EmptyFrame, dim_measure |-> EmptyFrame,
     dim_stratifiers |-> EmptyFrame, dim_universe |-> EmptyFrame, dim_concept |-> EmptyFrame,
     dim_endpoint |-> EmptyFrame, dim_valuetype |-> EmptyFrame, dim_dataset |-> EmptyFrame]

\* _starter: user_input is api_data.long() for an APIData and api_data itself
\* for a LazyFrame; the expression then calls .otherwise(...) on the LazyFrame
\* that .with_columns(...) returned
_starter(user_input) ==
    IF IsRaised(user_input) THEN user_input
    ELSE Raise("AttributeError", "'LazyFrame' object has no attribute 'otherwise'")

\* _strats and _long filter what _starter returns
_strats(starter) ==
    IF IsRaised(starter) THEN starter
    ELSE Returns(SelectSeq(starter.frame, LAMBDA row : row.measure_id = NullInt))
_long(starter) ==
    IF IsRaised(starter) THEN starter
    ELSE Returns(SelectSeq(starter.frame, LAMBDA row : row.measure_id # NullInt))

\* the computed branch of a set_* method: set_stratifiers reads the name
\* strats, which is not defined; every other method first reads _long, _strats
\* or _starter, and derives its table only when that returns
Derive(method, starter) ==
    IF method = "set_stratifiers" THEN Raise("NameError", "name 'strats' is not defined")
    ELSE IF method \in {"set_stratifiers_wide", "set_stratifiers_long"} THEN _strats(starter)
    ELSE _long(starter)

\* ACSStarModelBuilder.build(): the eight slots as they are
build(b) == [slot \in Slots |-> b[slot]]

\* a call in the log: the method, how it was called ("given" a table,
\* "derived" from the input, or "call" for build), what it raised, and the
\* table left in its slot (for build: the star model returned)
LogEntry(method, mode, r, table) ==
    [method |-> method, mode |-> mode, exc |-> r.exc, reason |-> r.reason, table |-> table]
NoExc == [exc |-> "none", reason |-> ""]

\* the object the builder was given
BuilderInputs ==
    {[kind |-> "APIData"]} \cup {[kind |-> "LazyFrame", frame |-> t] : t \in TidyInputs}

BuilderInit ==
    /\ builder \in {NewBuilder(i) : i \in BuilderInputs}
    /\ blog = <<>>
    /\ apidata = NewAPIData(Ep("acs/acs5", <<"group(B05006)">>))
    /\ fetchlog = <<>>
    /\ response = << <<"NAME", "B05006_001E">>, <<"Town X", "500">> >>
    /\ labels_response \in { <<>>, << LabelRow(Ep("acs/acs5", <<"group(B05006)">>), 2, 0, "B05006") >> }
    /\ called = "none"
    /\ out = Pending
    /\ UrlIdle
    /\ SourceIdle

\* set_*(table): the table is stored in the method's slot
SetGiven_firstKept(method) ==
    /\ builder' = IF builder[SlotOf[method]] # EmptyFrame THEN builder
                  ELSE [builder EXCEPT ![SlotOf[method]] = GivenTo(method)]
    /\ blog' = Append(blog, LogEntry(method, "given", NoExc, builder'[SlotOf[method]]))
    /\ UNCHANGED <<apidata, fetchlog>>
SetGiven(method) ==
    /\ builder' = [builder EXCEPT ![SlotOf[method]] = GivenTo(method)]
    /\ blog' = Append(blog, LogEntry(method, "given", NoExc, builder'[SlotOf[method]]))
    /\ UNCHANGED <<apidata, fetchlog>>

\* set_*(): the table is derived from _starter, which for an APIData first
\* calls its long() and so fills its caches; what is raised leaves the slot
SetDerived(method) ==
    /\ IF method # "set_stratifiers" /\ builder.api_data.kind = "APIData"
       THEN Use_lazyframe
       ELSE UNCHANGED <<apidata, fetchlog>>
    /\ \E r \in {Derive(method,
                        _starter(IF builder.api_data.kind = "APIData"
                                 THEN long(apidata.endpoint, apidata'._lazyframe.value)
                                 ELSE Returns(builder.api_data.frame)))} :
          /\ builder' = IF IsRaised(r) THEN builder ELSE [builder EXCEPT ![SlotOf[method]] = r.frame]
          /\ blog' = Append(blog, LogEntry(method, "derived", r, builder'[SlotOf[method]]))

SetStep(method) ==
    /\ SetGiven(method) \/ SetDerived(method)
    /\ UNCHANGED <<response, labels_response, called, out, urlVars, sourceVars>>

Set_fact == Len(blog) < MaxCalls /\ SetStep("set_fact")
Set_measure == Len(blog) < MaxCalls /\ SetStep("set_measure")
Set_universe == Len(blog) < MaxCalls /\ SetStep("set_universe")
Set_concept == Len(blog) < MaxCalls /\ SetStep("set_concept")
Set_endpoint == Len(blog) < MaxCalls /\ SetStep("set_endpoint")
Set_valuetype == Len(blog) < MaxCalls /\ SetStep("set_valuetype")
Set_dataset == Len(blog) < MaxCalls /\ SetStep("set_dataset")
Set_stratifiers_wide == Len(blog) < MaxCalls /\ SetStep("set_stratifiers_wide")
Set_stratifiers == Len(blog) < MaxCalls /\ SetStep("set_stratifiers")
Set_stratifiers_long == Len(blog) < MaxCalls /\ SetStep("set_stratifiers_long")

\* builder._strats / builder._long read by the client: the partition of
\* _starter, or what _starter raises
ReadStep(prop) ==
    /\ IF builder.api_data.kind = "APIData"
       THEN Use_lazyframe
       ELSE UNCHANGED <<apidata, fetchlog>>
    /\ \E starter \in {_starter(IF builder.api_data.kind = "APIData"
                                 THEN long(apidata.endpoint, apidata'._lazyframe.value)
                                 ELSE Returns(builder.api_data.frame))} :
          \E r \in {IF prop = "_strats" THEN _strats(starter) ELSE _long(starter)} :
             blog' = Append(blog, LogEntry(prop, "read", r, IF IsRaised(r) THEN EmptyFrame ELSE r.frame))
    /\ UNCHANGED <<builder, response, labels_response, called, out, urlVars, sourceVars>>

Read_strats == Len(blog) < MaxCalls /\ ReadStep("_strats")
Read_long == Len(blog) < MaxCalls /\ ReadStep("_long")

Build ==
    /\ Len(blog) < MaxCalls
    /\ blog' = Append(blog, LogEntry("build", "call", NoExc, build(builder)))
    /\ UNCHANGED <<builder, dataVars, urlVars, sourceVars>>

BuilderNext ==
    \/ Set_fact
    \/ Set_measure
    \/ Set_universe
    \/ Set_concept
    \/ Set_endpoint
    \/ Set_valuetype
    \/ Set_dataset
    \/ Set_stratifiers_wide
    \/ Set_stratifiers
    \/ Set_stratifiers_long
    \/ Read_strats
    \/ Read_long
    \/ Build

SpecBuilder == BuilderInit /\ [][BuilderNext]_vars

(***************************************************************************)
(* Endpoint descriptor built directly: a caller constructs APIEndpoint     *)
(* from keyword arguments, then builds one of its URLs or reads its        *)
(* table_type.                                                             *)
(***************************************************************************)
Years == {2004, 2005, 2023}
Datasets == {"acs", "acs/acs5", "/acs/acs5/", "acs/acs5/profile", "acs/acs1/subject", "acs/acs5/detailed"}
VariableLists ==
    { <<>>, <<"NAME">>, <<"group(B05006)">>, <<"group(DP05)">>, <<"group(CP05)">>,
      <<"group(S0101)">>, <<"group()">>, <<"NAME", "B05006_001E">> }
Geographies == {"ucgid:0400000US09", "for:tract:*"}
ApiKeys == {Null, "", "K1", "k&key=2"}

EndpointInit ==
    /\ url = ""
    /\ envToken \in Envs
    /\ upc = "start"
    /\ ep = Pending
    /\ rebuiltWith = "none"
    /\ rebuilt = Null
    /\ ep2 = Pending
    /\ given = NoArgs
    /\ read = NoRead
    /\ DataIdle
    /\ BuilderIdle
    /\ SourceIdle

Construct ==
    /\ upc = "start"
    /\ \E year \in Years, dataset \in Datasets, variables \in VariableLists,
          geography \in Geographies, api_key \in ApiKeys :
          /\ given' = [year |-> year, dataset |-> dataset, variables |-> variables,
                       geography |-> geography, api_key |-> api_key]
          /\ ep' = APIEndpoint(year, dataset, variables, geography, api_key, envToken)
    /\ upc' = "parsed"
    /\ UNCHANGED <<url, envToken, rebuiltWith, rebuilt, ep2, read, notUrlVars>>

Read_table_type ==
    /\ upc = "parsed"
    /\ ~IsRaised(ep)
    /\ read' = [name |-> "table_type", result |-> table_type(ep)]
    /\ upc' = "read"
    /\ UNCHANGED <<url, envToken, ep, rebuiltWith, rebuilt, ep2, given, notUrlVars>>

Read_variable_endpoint ==
    /\ upc = "parsed"
    /\ ~IsRaised(ep)
    /\ read' = [name |-> "variable_endpoint", result |-> variable_endpoint(ep)]
    /\ upc' = "read"
    /\ UNCHANGED <<url, envToken, ep, rebuiltWith, rebuilt, ep2, given, notUrlVars>>

EndpointNext ==
    \/ Construct
    \/ RebuildNoKey
    \/ RebuildFull
    \/ Read_table_type
    \/ Read_variable_endpoint

SpecEndpoint == EndpointInit /\ [][EndpointNext]_vars

(***************************************************************************)
(* The fetch collaborator: the steps of one fetch(url) call                *)
(***************************************************************************)
\* print(...) followed by sys.exit(1)
SysExit(s, message) ==
    [s EXCEPT !.pc = "exited",
              !.trace = @ \o <<Event("print:" \o message, s.url, s.response, <<>>),
                               Event("exit", s.url, s.response, <<>>)>>]

\* except requests.exceptions.HTTPError
OnHTTPError_retry(s) == [s EXCEPT !.pc = "get"]
OnHTTPError(s) == SysExit(s, "HTTP error occurred")

\* fetch(url) entered
Fetch ==
    /\ source.pc = "idle"
    /\ FetchCalls(source) < MaxFetches
    /\ \E u \in SourceUrls :
          source' = [source EXCEPT !.pc = "get", !.url = u,
                                   !.response = NoResponse,
                                   !.trace = Append(@, Event("call", u, NoResponse, <<>>))]
    /\ UNCHANGED <<urlVars, dataVars, builderVars>>

\* response = requests.get(url, timeout=30)
Requests_get ==
    /\ source.pc = "get"
    /\ \E o \in NetOutcomes :
          \E s \in {[source EXCEPT !.response = o,
                                   !.trace = Append(@, Event("request", source.url, o, <<>>))]} :
             source' = IF o.kind = "transport"
                       THEN SysExit(s, "An unexpected error occurred")
                       ELSE [s EXCEPT !.pc = "raise_for_status"]
    /\ UNCHANGED <<urlVars, dataVars, builderVars>>

\* response.raise_for_status()
Raise_for_status ==
    /\ source.pc = "raise_for_status"
    /\ source' = IF source.response.status >= 400
                 THEN OnHTTPError(source)
                 ELSE [source EXCEPT !.pc = "json"]
    /\ UNCHANGED <<urlVars, dataVars, builderVars>>

\* data = response.json(); return data
Response_json ==
    /\ source.pc = "json"
    /\ source' = IF source.response.body \in DOMAIN JsonOf
                 THEN [source EXCEPT !.pc = "idle",
                                     !.trace = Append(@, Event("return", source.url, source.response,
                                                               JsonOf[source.response.body]))]
                 ELSE SysExit(source, "JSON Decode error occurred")
    /\ UNCHANGED <<urlVars, dataVars, builderVars>>

SourceInit ==
    /\ SourceIdle
    /\ UrlIdle
    /\ DataIdle
    /\ BuilderIdle

SourceNext ==
    \/ Fetch
    \/ Requests_get
    \/ Raise_for_status
    \/ Response_json

SpecSource == SourceInit /\ [][SourceNext]_vars

(***************************************************************************)
(* Claims about the endpoint descriptor                                    *)
(***************************************************************************)
\* The request as its text states it, read without from_url: the path
\* segments between the origin and '?', and the query's name=value pieces.
TextPath(u) == CutAt(From(u, Len(UrlOrigin) + 1), "?")[1]
TextSegments(u) == SelectSeq(Split(TextPath(u), "/"), LAMBDA x : x # "")
TextQuery(u) == IF Contains(u, "?") THEN Split(CutAt(u, "?")[2], "&") ELSE <<>>
TextHasParam(u, name) ==
    Bind(TextQuery(u), LAMBDA qs :
        \E i \in 1..Len(qs) : StartsWith(qs[i], name \o "=") /\ Len(qs[i]) > Len(name) + 1)

VarSet(e) == {e.variables[i] : i \in 1..Len(e.variables)}
SameParse(a, b) ==
    /\ a.year = b.year
    /\ a.dataset = b.dataset
    /\ VarSet(a) = VarSet(b)
    /\ a.geography = b.geography

\* C1 (as claimed): whenever a URL was parsed, rebuilt from the descriptor
\* with url_no_key or full_url and parsed again, the second parse returns a
\* descriptor with the same year, dataset, set of variables and geography.
C1_RoundTrip ==
    upc = "reparsed" => (~IsRaised(ep2) /\ SameParse(ep, ep2))

\* The part of C1 the code does keep: a second parse that returns a
\* descriptor returns the same year, dataset, variables and geography, and
\* the second parse only raises for a URL rebuilt without the key in a process
\* whose settings supply no token.
C1_RoundTripWhenReparsed ==
    upc = "reparsed" =>
        IF IsRaised(ep2)
        THEN rebuiltWith = "url_no_key" /\ envToken.state # "token" /\ TextHasParam(url, "key")
        ELSE SameParse(ep, ep2)

\* C10: from_url raises a ValueError that carries a reason, and returns no
\* descriptor, for every URL whose path has fewer than 3 segments (none
\* included), whose first segment is not 'data', whose get parameter is absent
\* or empty, or which has none of the parameters for, in, ucgid.
C10_FromUrlFails ==
    ( /\ upc # "start"
      /\ \/ Len(TextSegments(url)) < 3
         \/ TextSegments(url)[1] # "data"
         \/ ~TextHasParam(url, "get")
         \/ ~(TextHasParam(url, "for") \/ TextHasParam(url, "in") \/ TextHasParam(url, "ucgid")) )
    => (ep.exc = "ValueError" /\ ep.reason # "")

\* C10 witness: a URL with an empty path was parsed and from_url raised.
C10_Witness ==
    /\ upc = "parsed"
    /\ TextSegments(url) = <<>>
    /\ TextHasParam(url, "get") /\ TextHasParam(url, "ucgid")
    /\ ep.exc = "ValueError"

\* the value the URL's text gives the first name=value piece of a name
TextParamValue(u, name) ==
    Bind(SelectSeq(TextQuery(u), LAMBDA q : StartsWith(q, name \o "=") /\ Len(q) > Len(name) + 1),
         LAMBDA hits : unquote(PlusToSpace(From(hits[1], Len(name) + 2))))
\* the first of for, in, ucgid the URL's text gives a value
TextGeoKey(u) ==
    IF TextHasParam(u, "for") THEN "for"
    ELSE IF TextHasParam(u, "in") THEN "in"
    ELSE "ucgid"

\* C11: the geography of every descriptor from_url returns is
\* '<key>:<value>' for the first of for, in, ucgid that the URL gives a value,
\* whatever other geography keys and whatever order the URL has them in.
C11_GeographyPriority ==
    (upc # "start" /\ ~IsRaised(ep)) =>
        ep.geography = TextGeoKey(url) \o ":" \o TextParamValue(url, TextGeoKey(url))

\* C11 witness: a URL that has in= before for= was parsed and the descriptor
\* took the geography of for.
C11_Witness ==
    /\ upc = "parsed"
    /\ ~IsRaised(ep)
    /\ TextHasParam(url, "in") /\ TextHasParam(url, "for")
    /\ StartsWith(TextParamValue(url, "in"), "state")
    /\ ep.geography = "for:tract:*"

\* the classification as stated: detailed for a single group(...) entry whose
\* dataset ends in its second segment, the profile variant by the group's
\* first character, subject by the last segment, unknown for everything else
IsGroupEntry(e) == Len(e.variables) = 1 /\ StartsWith(e.variables[1], "group(")
ClaimedTableType(e) ==
    Bind(Split(e.dataset, "/"), LAMBDA parts :
        IF IsGroupEntry(e) /\ Len(parts) >= 2 /\ parts[Len(parts)] = parts[Min({2, Len(parts)})]
        THEN "detailed"
        ELSE IF parts[Len(parts)] = "profile" /\ IsGroupEntry(e) /\ StartsWith(e.variables[1], "group(D")
        THEN "dataprofile"
        ELSE IF parts[Len(parts)] = "profile" /\ IsGroupEntry(e) /\ StartsWith(e.variables[1], "group(C")
        THEN "cprofile"
        ELSE IF parts[Len(parts)] = "subject" THEN "subject"
        ELSE "unknown")

\* C12: reading table_type of a constructed endpoint never raises and returns
\* the stated classification: detailed, subject, dataprofile, cprofile, or
\* unknown in every other case (a one-segment dataset and a profile dataset
\* with an enumerated variable list included).
C12_TableTypeTotal ==
    (upc = "read" /\ read.name = "table_type") =>
        /\ ~IsRaised(read.result)
        /\ read.result.value = ClaimedTableType(ep)

\* the key pieces and the other pieces of a URL's query, as its text has them
KeyPieces(u) == SelectSeq(TextQuery(u), LAMBDA q : StartsWith(q, "key="))
OtherPieces(u) == SelectSeq(TextQuery(u), LAMBDA q : ~StartsWith(q, "key="))

\* C13: a URL built with url_no_key has no key parameter and does not contain
\* the credential; a URL built with full_url has a key parameter exactly when
\* the credential is non-empty, that parameter decodes to the credential, and
\* without it the URL is the one url_no_key builds.
C13_KeyOnlyInFullUrl ==
    upc = "rebuilt" =>
        /\ rebuiltWith = "url_no_key" =>
              /\ KeyPieces(rebuilt) = <<>>
              /\ ep.api_key # "" => ~Contains(rebuilt, ep.api_key)
        /\ rebuiltWith = "full_url" =>
              /\ (KeyPieces(rebuilt) # <<>>) <=> (ep.api_key # "")
              /\ ep.api_key # "" =>
                    /\ Len(KeyPieces(rebuilt)) = 1
                    /\ unquote(PlusToSpace(From(KeyPieces(rebuilt)[1], 5))) = ep.api_key
              /\ CutAt(rebuilt, "?")[1] = CutAt(url_no_key(ep), "?")[1]
              /\ OtherPieces(rebuilt) = TextQuery(url_no_key(ep))

\* C13 witness: full_url was built for a credential that holds '&' and '=',
\* and the URL carries it as its one key parameter.
C13_Witness ==
    /\ upc = "rebuilt"
    /\ rebuiltWith = "full_url"
    /\ ep.api_key = "k&key=2"
    /\ Len(KeyPieces(rebuilt)) = 1

\* C14: when the caller gives no credential and the settings supply no token,
\* constructing an endpoint from otherwise valid arguments succeeds, and
\* full_url builds a URL without a key parameter.
C14_MissingCredentialTolerated ==
    ( /\ upc # "start"
      /\ given.api_key = Null /\ envToken.state # "token"
      /\ given.year > 2004 /\ given.variables # <<>> )
    => /\ ~IsRaised(ep)
       /\ (upc = "rebuilt" /\ rebuiltWith = "full_url") => KeyPieces(rebuilt) = <<>>

\* s is t with nothing but '/' characters around it
OnlySlashes(s) == \A i \in 1..Len(s) : Ch(s, i) = "/"
SlashesAround(t, s) ==
    \E i \in 0..(Len(s) - Len(t)) :
        /\ SubSeq(s, i + 1, i + Len(t)) = t
        /\ OnlySlashes(SubSeq(s, 1, i))
        /\ OnlySlashes(SubSeq(s, i + Len(t) + 1, Len(s)))

\* C15: a descriptor that was constructed has year > 2004, a non-empty
\* variable list and a dataset without leading or trailing '/', which is the
\* given dataset without the '/' around it; construction with year <= 2004 or
\* an empty variable list returns no descriptor.
C15_DescriptorInvariant ==
    upc # "start" =>
        /\ ~IsRaised(ep) =>
              /\ ep.year > 2004
              /\ Len(ep.variables) > 0
              /\ ~StartsWith(ep.dataset, "/") /\ ~EndsWith(ep.dataset, "/")
              /\ SlashesAround(ep.dataset, given.dataset)
        /\ (given.year <= 2004 \/ given.variables = <<>>) => IsRaised(ep)

\* C15 witness: a dataset given with '/' around it was stored stripped.
C15_Witness ==
    /\ upc = "parsed"
    /\ ~IsRaised(ep)
    /\ given.dataset = "/acs/acs5/"
    /\ ep.dataset = "acs/acs5"
    /\ ep.year = 2005

\* C29: whenever variable_endpoint is read on a constructed endpoint it
\* returns a URL; for an endpoint whose group is undefined the URL is the
\* catch-all '.../variables', and a URL under '/groups/' is returned only
\* for an endpoint whose group is defined.
C29_NoUndefinedGroupInUrl ==
    (upc = "read" /\ read.name = "variable_endpoint") =>
        /\ ~IsRaised(read.result)
        /\ group(ep) = Null => read.result.value = UrlPath(ep) \o "/variables"
        /\ Contains(read.result.value, "/groups/") => group(ep) # Null

(***************************************************************************)
(* Claims about the response data                                          *)
(***************************************************************************)
\* the frame the last call returned
OutFrame == out.frame
Returned(name) == called = name /\ out.exc = "none"

\* the number of data rows and of header columns of the raw response
NumDataRows == Len(response) - 1
NumHeaderColumns == Len(response[1])

\* C2: once _lazyframe is built, it has exactly (data rows) x (header
\* columns) rows, one for each cell of the raw response, whether or not the
\* cell's variable has a label.
C2_LongRowCount ==
    apidata._lazyframe.set =>
        /\ Len(apidata._lazyframe.value) = NumDataRows * NumHeaderColumns
        /\ \A r \in 1..NumDataRows, c \in 1..NumHeaderColumns :
              Cardinality({k \in 1..Len(apidata._lazyframe.value) :
                              /\ apidata._lazyframe.value[k].stratifier_id = r
                              /\ apidata._lazyframe.value[k].variable = response[1][c]
                              /\ apidata._lazyframe.value[k].value = response[r + 1][c]}) = 1

\* C2 witness: a built frame of two data rows and three columns in which one
\* variable got a label and another got none.
C2_Witness ==
    /\ apidata._lazyframe.set
    /\ NumDataRows = 2 /\ NumHeaderColumns = 3
    /\ \E k \in 1..Len(apidata._lazyframe.value) : apidata._lazyframe.value[k].label = Null
    /\ \E k \in 1..Len(apidata._lazyframe.value) : apidata._lazyframe.value[k].label # Null

\* the scenario of C6: dataset acs/acs5, variables [group(B05006)], header
\* [NAME, B05006_001E, B05006_001M], one data row [Town X, 500, 25]
C6_Input ==
    /\ apidata.endpoint.dataset = "acs/acs5"
    /\ apidata.endpoint.variables = <<"group(B05006)">>
    /\ response = << <<"NAME", "B05006_001E", "B05006_001M">>, <<"Town X", "500", "25">> >>

\* C6 (as claimed): in the scenario, long() returns the long table: 3 rows,
\* the NAME row a stratifier row (no measure_id) and the two measure rows E
\* and M of one stratifier, from which the fact table is built.
C6_EndToEnd ==
    (C6_Input /\ called = "long") =>
        /\ out.exc = "none"
        /\ Len(OutFrame) = 3
        /\ Cardinality({k \in 1..Len(OutFrame) : OutFrame[k].measure_id # NullInt}) = 2
        /\ \A j, k \in 1..Len(OutFrame) : OutFrame[j].stratifier_id = OutFrame[k].stratifier_id

\* the number of "!!" in a label whose delimiters do not overlap
DelimiterCount(label) ==
    IF label = Null THEN 0
    ELSE Cardinality({i \in 1..(Len(label) - 1) : SubSeq(label, i, i + 1) = "!!"})
Segments(row) == <<row.label_line_type, row.label_concept_base, row.label_stratifier, row.label_end>>
NonNullSegments(row) == Cardinality({i \in 1..4 : Segments(row)[i] # Null})

\* C8 (as claimed): in the output of _parse_label, a row whose label has
\* exactly 2 '!!' delimiters has exactly 2 non-null segments among
\* label_line_type, label_concept_base, label_stratifier, label_end.
C8_TwoSegments ==
    Returned("_parse_label") =>
        \A k \in 1..Len(OutFrame) :
            DelimiterCount(OutFrame[k].label) = 2 => NonNullSegments(OutFrame[k]) = 2

\* C8 (amended): in the output of _parse_label, a row whose label has exactly
\* 2 '!!' delimiters has its 3 parts in label_line_type, label_concept_base
\* and label_stratifier, all non-null, and a null label_end: 3 non-null
\* segments, one per part.
C8_ThreeSegments ==
    Returned("_parse_label") =>
        \A k \in 1..Len(OutFrame) :
            DelimiterCount(OutFrame[k].label) = 2 =>
                /\ OutFrame[k].label_line_type # Null
                /\ OutFrame[k].label_concept_base # Null
                /\ OutFrame[k].label_stratifier # Null
                /\ OutFrame[k].label_end = Null
                /\ NonNullSegments(OutFrame[k]) = 3

\* C8 witness: _parse_label returned a row whose label has exactly 2 delimiters.
C8_Witness ==
    /\ Returned("_parse_label")
    /\ \E k \in 1..Len(OutFrame) :
          DelimiterCount(OutFrame[k].label) = 2 /\ OutFrame[k].label_stratifier = "europe"

\* the parts of a variable code as the claim words them
CodeTable(v) == IF Contains(v, "_") THEN CutAt(v, "_")[1] ELSE v
CodeLine(v) == IF Contains(v, "_") THEN CutAt(CutAt(v, "_")[2], "_")[1] ELSE Null
LeadingDigits(s) == Cardinality({n \in 1..Len(s) : \A i \in 1..n : Ch(s, i) \in Digits})
TrailingNonDigits(s) == Cardinality({n \in 1..Len(s) : \A i \in (Len(s) - n + 1)..Len(s) : Ch(s, i) \notin Digits})
NonExtraRow(row) == SplitFirst(row.variable, "_") \in {OutFrame[k].group : k \in 1..Len(OutFrame)} \ {Null}

\* C9: for an endpoint of table type detailed or dataprofile, every non-extra
\* row of the output of _parse_vars has table_id the text before the first
\* '_' and line_id the text after it, column_id and column_number null,
\* line_number the integer its line_id's leading digits denote (null when it
\* has none) and line_suffix its line_id's trailing non-digit characters;
\* B05006_001E has table_id B05006, line_number 1 and line_suffix E.
C9_DetailedDecoding ==
    (Returned("_parse_vars") /\ table_type(apidata.endpoint).value \in {"detailed", "dataprofile"}) =>
        \A k \in 1..Len(OutFrame) :
            NonExtraRow(OutFrame[k]) =>
                /\ OutFrame[k].table_id = CodeTable(OutFrame[k].variable)
                /\ OutFrame[k].line_id = CodeLine(OutFrame[k].variable)
                /\ OutFrame[k].column_id = Null
                /\ OutFrame[k].column_number = NullInt
                /\ IF OutFrame[k].line_id = Null \/ LeadingDigits(OutFrame[k].line_id) = 0
                   THEN OutFrame[k].line_number = NullInt
                   ELSE OutFrame[k].line_number
                            = StrToInt(SubSeq(OutFrame[k].line_id, 1, LeadingDigits(OutFrame[k].line_id)))
                /\ IF OutFrame[k].line_id = Null \/ TrailingNonDigits(OutFrame[k].line_id) = 0
                   THEN OutFrame[k].line_suffix = Null
                   ELSE OutFrame[k].line_suffix
                            = From(OutFrame[k].line_id,
                                   Len(OutFrame[k].line_id) - TrailingNonDigits(OutFrame[k].line_id) + 1)
                /\ OutFrame[k].variable = "B05006_001E" =>
                      /\ OutFrame[k].table_id = "B05006"
                      /\ OutFrame[k].line_number = 1
                      /\ OutFrame[k].line_suffix = "E"

\* C9 witness: _parse_vars of a detailed endpoint returned the decoded row of
\* B05006_001E and a row of a code without line digits.
C9_Witness ==
    /\ Returned("_parse_vars")
    /\ table_type(apidata.endpoint).value = "detailed"
    /\ \E k \in 1..Len(OutFrame) :
          /\ NonExtraRow(OutFrame[k])
          /\ OutFrame[k].variable = "B05006_001E"
          /\ OutFrame[k].line_number = 1
    /\ \E k \in 1..Len(OutFrame) :
          /\ NonExtraRow(OutFrame[k])
          /\ OutFrame[k].line_suffix = "EA"


\* the columns _parse_vars decodes from the variable code
StructuralStrings ==
    {"table_type", "table_id", "table_subject_id", "subject_table_number", "table_id_suffix",
     "column_id", "line_id", "line_suffix"}
StructuralIntegers == {"column_number", "line_number"}

\* C18: for an endpoint whose table_type is unknown or cprofile, _parse_vars
\* and standard_parse return, with one row per row of the long frame, and
\* every structural column of every row is null.
C18_DegradedDecode ==
    ( /\ called \in {"_parse_vars", "standard_parse"}
      /\ table_type(apidata.endpoint).value \in {"unknown", "cprofile"} )
    => /\ ~IsRaised(out)
       /\ Len(out.frame) = Len(apidata._lazyframe.value)
       /\ \A n \in DOMAIN out.frame :
             /\ \A c \in StructuralStrings : out.frame[n][c] = Null
             /\ \A c \in StructuralIntegers : out.frame[n][c] = NullInt

\* C18 witness: _parse_vars returned for a cprofile endpoint whose payload
\* has a CP05 code that a decoding branch would have split.
C18_Witness ==
    /\ called = "_parse_vars"
    /\ table_type(apidata.endpoint).value = "cprofile"
    /\ ~IsRaised(out)
    /\ \E n \in DOMAIN out.frame : out.frame[n].variable = "CP05_001E" /\ out.frame[n].table_id = Null

\* the '!!'-separated parts of a label, cleaned the way _parse_label cleans
\* a segment (dashes and colons dropped, stripped, lower case)
LabelParts(label) ==
    Bind(Split(label, "!!"), LAMBDA parts : {CleanPart(parts[i]) : i \in 1..Len(parts)} \ {""})
KeepsPart(row, part) == \E i \in 1..4 : Segments(row)[i] # Null /\ Contains(Segments(row)[i], part)

\* C19: in the output of _parse_label, every '!!'-separated part of a row's
\* label is found in label_line_type, label_concept_base, label_stratifier or
\* label_end, however many delimiters the label has.
C19_NoLabelTextDiscarded ==
    Returned("_parse_label") =>
        \A n \in DOMAIN OutFrame :
            OutFrame[n].label # Null =>
                \A part \in LabelParts(OutFrame[n].label) : KeepsPart(OutFrame[n], part)

\* the part of C19 the code keeps: nothing is lost of a label with at most 4
\* delimiters, and of a longer label the first five parts are kept
C19_FirstFivePartsKept ==
    Returned("_parse_label") =>
        \A n \in DOMAIN OutFrame :
            OutFrame[n].label # Null =>
                Bind(Split(OutFrame[n].label, "!!"), LAMBDA parts :
                    \A i \in 1..Len(parts) :
                        (i <= 5 /\ CleanPart(parts[i]) # "") => KeepsPart(OutFrame[n], CleanPart(parts[i])))

\* C20: in the output of _parse_vars, two measure rows with the same
\* column_number and line_number carry the same measure_id, whatever their
\* stratifier_id.
C20_MeasureIdSharedAcrossStratifiers ==
    Returned("_parse_vars") =>
        \A m, n \in DOMAIN OutFrame :
            ( /\ OutFrame[m].measure_id # NullInt /\ OutFrame[n].measure_id # NullInt
              /\ OutFrame[m].column_number = OutFrame[n].column_number
              /\ OutFrame[m].line_number = OutFrame[n].line_number )
            => OutFrame[m].measure_id = OutFrame[n].measure_id

\* the rows standard_parse gives long() to work on, <<>> when it raises
ParsedRows ==
    Bind(standard_parse(apidata.endpoint, apidata._lazyframe.value), LAMBDA sp :
        IF IsRaised(sp) THEN <<>> ELSE sp.frame)
ParsedRowOf(row) ==
    CHOOSE r \in Range(ParsedRows) : r.stratifier_id = row.stratifier_id /\ r.variable = row.variable
OrEmpty(v) == IF v = Null THEN "" ELSE v

\* the measure text as stated: concept_base ': ' stratifier ' - ' end, without
\* the separators that empty or missing segments would leave at the end
ClaimedMeasure(r) ==
    IF OrEmpty(r.label_end) # ""
    THEN OrEmpty(r.label_concept_base) \o ": " \o OrEmpty(r.label_stratifier) \o " - " \o r.label_end
    ELSE IF OrEmpty(r.label_stratifier) # ""
    THEN OrEmpty(r.label_concept_base) \o ": " \o r.label_stratifier
    ELSE OrEmpty(r.label_concept_base)
ClaimedValueType(r) == IF r.label_line_type # Null THEN r.label_line_type ELSE r.variable

\* C23: for every input standard_parse returns for, long() returns its rows
\* sorted by (stratifier_id, variable), one per parsed row, with row_id the
\* row's position counted from 1.
C23_LongOrderedAndComplete ==
    (called = "long" /\ ParsedRows # <<>>) =>
        /\ out.exc = "none"
        /\ Len(OutFrame) = Len(ParsedRows)
        /\ \A k \in DOMAIN OutFrame : OutFrame[k].row_id = k
        /\ \A j, k \in DOMAIN OutFrame :
              j < k => \/ OutFrame[j].stratifier_id < OutFrame[k].stratifier_id
                       \/ /\ OutFrame[j].stratifier_id = OutFrame[k].stratifier_id
                          /\ OutFrame[j].variable # OutFrame[k].variable

\* C21: long() returns, and on every row that has a concept_base segment the
\* measure is concept_base ': ' stratifier ' - ' end with the trailing
\* separators of empty or missing segments trimmed and nothing else.
C21_MeasureConcatenation ==
    (called = "long" /\ ParsedRows # <<>>) =>
        /\ out.exc = "none"
        /\ \A k \in DOMAIN OutFrame :
              ParsedRowOf(OutFrame[k]).label_concept_base # Null =>
                  OutFrame[k].measure = ClaimedMeasure(ParsedRowOf(OutFrame[k]))

\* C22: long() returns, and on every row value_type is the decoded line_type
\* or else the variable code, and universe, concept and measure are non-null,
\* a null one being replaced by value_type.
C22_LongNonNullColumns ==
    (called = "long" /\ ParsedRows # <<>>) =>
        /\ out.exc = "none"
        /\ \A k \in DOMAIN OutFrame :
              /\ OutFrame[k].value_type = ClaimedValueType(ParsedRowOf(OutFrame[k]))
              /\ OutFrame[k].universe # Null /\ OutFrame[k].concept # Null /\ OutFrame[k].measure # Null
              /\ ParsedRowOf(OutFrame[k]).universe = Null => OutFrame[k].universe = OutFrame[k].value_type
              /\ ParsedRowOf(OutFrame[k]).concept = Null => OutFrame[k].concept = OutFrame[k].value_type

\* the classification of C27: the variable's group prefix is not among the
\* groups present in the frame, or the row itself carries no group
ClaimedExtra(row, frame) ==
    \/ SplitFirst(row.variable, "_") \notin ({frame[k].group : k \in 1..Len(frame)} \ {Null})
    \/ row.group = Null

\* C27: the rows _extra returns are exactly the rows of the long frame whose
\* variable's group prefix is not an expected group or that carry no group.
C27_ExtraPredicate ==
    Returned("_extra") =>
        \A k \in 1..Len(apidata._lazyframe.value) :
            (apidata._lazyframe.value[k].row_id \in {OutFrame[j].row_id : j \in 1..Len(OutFrame)})
                <=> ClaimedExtra(apidata._lazyframe.value[k], apidata._lazyframe.value)

Calls == 1..Len(blog)
Derived(i, methods) == blog[i].method \in methods /\ blog[i].mode = "derived"
ReturnedCall(i) == blog[i].exc = "none"
\* the builder was given a tidy table rather than an APIData
TidyInput == builder.api_data.kind = "LazyFrame"

\* the key and text column of each dimension table
DimMethods == {"set_universe", "set_concept", "set_endpoint", "set_dataset", "set_valuetype"}
KeyColumn ==
    [dim_universe |-> "DimUniverseID", dim_concept |-> "DimConceptID",
     dim_endpoint |-> "DimEndpointID", dim_dataset |-> "DimDatasetID",
     dim_valuetype |-> "DimValueTypeID", dim_measure |-> "DimMeasureID",
     dim_stratifiers |-> "DimStratifierID"]
TextColumn ==
    [dim_universe |-> "universe", dim_concept |-> "concept", dim_endpoint |-> "endpoint",
     dim_dataset |-> "dataset", dim_valuetype |-> "value_type"]
KeysOf(table, column) == {table[n][column] : n \in DOMAIN table}
DenseKeys(table, key, text) ==
    /\ KeysOf(table, key) = 1..Cardinality(KeysOf(table, key))
    /\ \A m, n \in DOMAIN table : table[m][text] = table[n][text] => table[m][key] = table[n][key]

\* C3: every derivation of the universe, concept, endpoint, dataset or
\* value_type dimension from a tidy table returns a table whose keys are
\* exactly 1..k and in which rows with the same text carry the same key.
C3_DenseDimensionKeys ==
    \A i \in Calls :
        (TidyInput /\ Derived(i, DimMethods)) =>
            /\ ReturnedCall(i)
            /\ DenseKeys(blog[i].table, KeyColumn[SlotOf[blog[i].method]],
                         TextColumn[SlotOf[blog[i].method]])

\* the stratifier groups of a tidy input and the (variable, value) pairs of each
StratRows(frame) == {n \in DOMAIN frame : frame[n].measure_id = NullInt}
StratGroups(frame) == {<<frame[n].endpoint, frame[n].stratifier_id>> : n \in StratRows(frame)}
PairSet(frame, g) ==
    {<<frame[n].variable, frame[n].value>> :
        n \in {m \in StratRows(frame) : <<frame[m].endpoint, frame[m].stratifier_id>> = g}}
IdsOf(table, pairs) ==
    {table[n].DimStratifierID :
        n \in {m \in DOMAIN table : <<table[m].stratifier_type, table[m].stratifier_value>> \in pairs}}
Collapsed(frame, table) ==
    \A g, h \in StratGroups(frame) :
        /\ Cardinality(IdsOf(table, PairSet(frame, g))) = 1
        /\ (PairSet(frame, g) = PairSet(frame, h))
              <=> (IdsOf(table, PairSet(frame, g)) = IdsOf(table, PairSet(frame, h)))

\* C4: every derivation of the stratifier dimension by set_stratifiers returns
\* a table in which two stratifier groups of the input have the same
\* DimStratifierID exactly when their sets of (variable, value) pairs are equal.
C4_StratifierCollapsing ==
    \A i \in Calls :
        (TidyInput /\ Derived(i, {"set_stratifiers"})) =>
            /\ ReturnedCall(i)
            /\ Collapsed(builder.api_data.frame, blog[i].table)

\* the foreign keys of the fact table and the dimension each one points to
ForeignKeys ==
    [DimUniverseID |-> "dim_universe", DimConceptID |-> "dim_concept",
     DimEndpointID |-> "dim_endpoint", DimDatasetID |-> "dim_dataset",
     DimValueTypeID |-> "dim_valuetype", DimMeasureID |-> "dim_measure",
     DimStratifierID |-> "dim_stratifiers"]
NoOrphans(star) ==
    \A fk \in DOMAIN ForeignKeys :
        KeysOf(star.fact, fk) \subseteq KeysOf(star[ForeignKeys[fk]], fk)

\* C5: whenever build() follows a derivation of the fact table from a tidy
\* table, every set_*
\* step before it returned and every foreign key of the built fact table is
\* a key of its dimension table.
C5_NoOrphans ==
    \A i \in Calls :
        (TidyInput /\ blog[i].method = "build" /\ \E j \in 1..(i - 1) : Derived(j, {"set_fact"})) =>
            /\ \A j \in 1..(i - 1) : ReturnedCall(j)
            /\ NoOrphans(blog[i].table)

\* C7: two derivations by the same method from the same tidy table both
\* return, and leave the same table.
C7_Idempotent ==
    \A i, j \in Calls :
        (TidyInput /\ i < j /\ blog[i].method = blog[j].method /\ Derived(i, DOMAIN SlotOf) /\ Derived(j, DOMAIN SlotOf)) =>
            /\ ReturnedCall(i) /\ ReturnedCall(j)
            /\ blog[i].table = blog[j].table

\* the slots some set_* call before the i-th call was made for
SlotsInvoked(i) == {SlotOf[blog[j].method] : j \in {k \in 1..(i - 1) : blog[k].method \in DOMAIN SlotOf}}

C24_StratsLongPartition ==
    \A i, j \in Calls :
        (TidyInput /\ blog[i].method = "_strats" /\ blog[j].method = "_long") =>
            /\ ReturnedCall(i) /\ ReturnedCall(j)
            /\ \A m \in DOMAIN blog[i].table : blog[i].table[m].measure_id = NullInt
            /\ \A n \in DOMAIN blog[j].table : blog[j].table[n].measure_id # NullInt
            /\ Len(blog[i].table) + Len(blog[j].table) = Len(builder.api_data.frame)

\* the descriptive text columns the fact table is said to drop
FactTextColumns ==
    {"universe", "concept", "endpoint", "dataset", "value_type", "stratifier_id", "measure"}
MeasureRowCount(frame) == Cardinality({n \in DOMAIN frame : frame[n].measure_id # NullInt})

\* C25: every derivation of the fact table from a tidy table returns a table
\* with one row per measure row of the input, none of the descriptive text
\* columns, and a FactID equal to the row's position counted from 1.
C25_FactTable ==
    \A i \in Calls :
        (TidyInput /\ Derived(i, {"set_fact"})) =>
            /\ ReturnedCall(i)
            /\ Len(blog[i].table) = MeasureRowCount(builder.api_data.frame)
            /\ \A n \in DOMAIN blog[i].table :
                  /\ DOMAIN blog[i].table[n] \cap FactTextColumns = {}
                  /\ "FactID" \in DOMAIN blog[i].table[n]
                  /\ blog[i].table[n].FactID = n

\* the calls so far that assigned the slot: set_* calls that returned
AssignedBy(slot) ==
    {j \in Calls : /\ blog[j].method \in DOMAIN SlotOf
                   /\ SlotOf[blog[j].method] = slot
                   /\ blog[j].exc = "none"}

\* C28: after any sequence of calls, every slot holds the table of the last
\* set_* call that returned for that slot (the three stratifier methods all
\* count for dim_stratifiers) and is empty if there was none, so no call
\* changed a slot other than its own; a call handed a table left that very
\* table; and the star model build() returned is the slots as they are.
C28_SlotHoldsLastAssignment ==
    /\ \A slot \in Slots :
          builder[slot] = IF AssignedBy(slot) = {} THEN EmptyFrame
                          ELSE blog[Max(AssignedBy(slot))].table
    /\ \A j \in Calls :
          blog[j].mode = "given" => (blog[j].exc = "none" /\ blog[j].table = GivenTo(blog[j].method))
    /\ \A j \in Calls :
          (blog[j].method = "build" /\ j = Len(blog)) =>
              \A slot \in Slots : blog[j].table[slot] = builder[slot]

\* C28 witness: set_stratifiers_wide and then set_stratifiers_long were each
\* handed a table, and dim_stratifiers holds the one handed last.
C28_Witness ==
    /\ Len(blog) = 2
    /\ blog[1].method = "set_stratifiers_wide" /\ blog[1].mode = "given"
    /\ blog[2].method = "set_stratifiers_long" /\ blog[2].mode = "given"
    /\ builder.dim_stratifiers = GivenTo("set_stratifiers_long")
    /\ builder.dim_stratifiers # blog[1].table
    /\ builder.fact = EmptyFrame

(***************************************************************************)
(* Claims about the fetch collaborator                                     *)
(***************************************************************************)
\* the fetch call an event belongs to: the last "call" event at or before it
CallOf(k) == Max({i \in 1..k : source.trace[i].ev = "call"})
RequestsOf(i) ==
    {k \in DOMAIN source.trace : source.trace[k].ev = "request" /\ CallOf(k) = i}
FailedRequest(e) ==
    e.ev = "request" /\ (e.kind = "transport" \/ e.status >= 400 \/ e.body \notin DOMAIN JsonOf)

\* C26: every fetch call issues at most one request; a request that failed
\* (no response, an HTTP error status, or a body that is not JSON) is
\* followed by nothing but the report and the end of the process, and after
\* the end nothing happens; a payload is returned only right after a request
\* that got a non-error response whose body decodes, and it is that decoding.
C26_FetchNoRetry ==
    /\ \A i \in DOMAIN source.trace :
          source.trace[i].ev = "call" => Cardinality(RequestsOf(i)) <= 1
    /\ \A k \in DOMAIN source.trace :
          FailedRequest(source.trace[k]) =>
             /\ k + 1 <= Len(source.trace) => StartsWith(source.trace[k + 1].ev, "print:")
             /\ k + 2 <= Len(source.trace) => source.trace[k + 2].ev = "exit"
    /\ \A k \in DOMAIN source.trace :
          source.trace[k].ev = "exit" => (k = Len(source.trace) /\ source.pc = "exited")
    /\ \A k \in DOMAIN source.trace :
          source.trace[k].ev = "return" =>
             /\ k > 1
             /\ source.trace[k - 1].ev = "request"
             /\ ~FailedRequest(source.trace[k - 1])
             /\ source.trace[k].data = JsonOf[source.trace[k - 1].body]

\* a second fetch call of the process met an HTTP error status and the
\* process has ended, after a first call that returned its payload
C26_Witness ==
    /\ source.pc = "exited"
    /\ FetchCalls(source) = 2
    /\ \E k \in DOMAIN source.trace :
          source.trace[k].ev = "request" /\ source.trace[k].status >= 400
    /\ \E k \in DOMAIN source.trace : source.trace[k].ev = "return"

====
